---- MODULE Spec2Model ----
(***************************************************************************)
(* Progress-coordination and delivery-resilience engine of the yt-dlp      *)
(* worker (src/yt-dlp-worker/worker.py).                                   *)
(*                                                                         *)
(* Units.  Wall-clock time is counted in whole seconds (datetime.now()).   *)
(* A progress percentage is counted in hundredths of a percent, so 45.27%  *)
(* is 4527 and 100% is 10000.  Throttling thresholds are counted in        *)
(* thousandths (of a second, or of a percent).  Two calls made at the same *)
(* value of now are a few microseconds apart in the program.               *)
(*                                                                         *)
(* Python's None is the integer None, below every time and percentage the  *)
(* model uses.  A dictionary is a function whose DOMAIN is the set of keys *)
(* present; the per-client key strings ("<id>_websocket_failures", ...)    *)
(* are represented by the client id, one table per key suffix.             *)
(***************************************************************************)
EXTENDS Integers, Sequences, FiniteSets, TLC

VARIABLES
    now,                          \* datetime.now(), seconds
    _websocket_failure_tracking,  \* client id -> failure record
    _progress_cache,              \* client id -> last sent update
    _connection_quality_cache,    \* client id -> failed_requests, response_times
    _progress_states,             \* client id -> ProgressState
    last_simulated,               \* client id -> last value the generator returned
    _stall_detection,             \* client id -> stall_info
    downloads,                    \* client id -> the download_file call in progress
    _parsing_failure_counts,      \* client id -> parse failures counted
    validation_failures,          \* _progress_stats['validation_failures']
    tracking_created,             \* hasattr(self, '_websocket_failure_tracking')
    threads,                      \* client id -> the callback thread of that job
    active_connections,           \* server: client id -> the WebSocket registered
    websockets,                   \* server: socket -> client id, state, messages sent
    obs                           \* what the last operation did and returned

deliveryVars == <<_websocket_failure_tracking, _progress_cache,
                  _connection_quality_cache>>
progressVars == <<_progress_states, last_simulated>>
stallVars == <<_stall_detection, downloads>>
parseVars == <<_parsing_failure_counts, validation_failures>>
threadVars == <<tracking_created, threads>>
serverVars == <<active_connections, websockets>>
vars == <<now, deliveryVars, progressVars, stallVars, parseVars, threadVars, serverVars,
          obs>>

None == -1000000

\* ------------------------------------------------------------ bounds
MaxTime == 130
MaxDeliveryTime == 20
MaxFailures == 6
MaxUpdates == 2

\* ------------------------------------------------------------ dictionaries
EmptyTable == [k \in {} |-> None]
Get(table, key, default) == IF key \in DOMAIN table THEN table[key] ELSE default
Put(table, key, value) ==
    [k \in (DOMAIN table) \cup {key} |-> IF k = key THEN value ELSE table[k]]
Max(a, b) == IF a >= b THEN a ELSE b
Min(a, b) == IF a <= b THEN a ELSE b
Abs(a) == IF a >= 0 THEN a ELSE 0 - a

\* ------------------------------------------------------------ FailureTracker
DegradedThreshold == 3
BreakerThreshold == 5
BreakerCooldown == 60
TimeoutCap == 300

DefaultFailureInfo ==
    [consecutive_failures |-> 0, total_failures |-> 0, last_failure_time |-> None,
     circuit_breaker_until |-> None, degraded_mode |-> FALSE, retry_attempts |-> 0]

\* Degraded mode entered one failure late (> for >=).
GracefulDegradation_LateDegraded(info, t) ==
    IF info.consecutive_failures >= BreakerThreshold
    THEN [info EXCEPT !.circuit_breaker_until = t + BreakerCooldown]
    ELSE IF info.consecutive_failures > DegradedThreshold
         THEN [info EXCEPT !.degraded_mode = TRUE]
         ELSE info

\* The two branches tested in the other order: the breaker branch is shadowed.
GracefulDegradation_BranchOrder(info, t) ==
    IF info.consecutive_failures >= DegradedThreshold
    THEN [info EXCEPT !.degraded_mode = TRUE]
    ELSE IF info.consecutive_failures >= BreakerThreshold
         THEN [info EXCEPT !.circuit_breaker_until = t + BreakerCooldown]
         ELSE info

\* How the failure record moves on one counted failure at time t.
GracefulDegradation(info, t) ==
    IF info.consecutive_failures >= BreakerThreshold
    THEN [info EXCEPT !.circuit_breaker_until = t + BreakerCooldown]
    ELSE IF info.consecutive_failures >= DegradedThreshold
         THEN [info EXCEPT !.degraded_mode = TRUE]
         ELSE info

_handle_websocket_failure(tracking, client_id, t) ==
    LET failure_info == Get(tracking, client_id, DefaultFailureInfo)
        counted == [failure_info EXCEPT !.consecutive_failures = @ + 1,
                                        !.total_failures = @ + 1,
                                        !.last_failure_time = t,
                                        !.retry_attempts = @ + 1]
    IN  Put(tracking, client_id, GracefulDegradation(counted, t))

\* A reset that forgets the degraded flag.
ClosedState_KeepsDegraded(info) ==
    [info EXCEPT !.consecutive_failures = 0, !.circuit_breaker_until = None,
                 !.retry_attempts = 0]

\* A reset that also forgets the statistics.
ClosedState_ForgetsTotal(info) ==
    [info EXCEPT !.consecutive_failures = 0, !.total_failures = 0,
                 !.circuit_breaker_until = None,
                 !.degraded_mode = FALSE, !.retry_attempts = 0]

ClosedState(info) ==
    [info EXCEPT !.consecutive_failures = 0, !.circuit_breaker_until = None,
                 !.degraded_mode = FALSE, !.retry_attempts = 0]

_reset_websocket_failure_tracking(tracking, client_id) ==
    IF client_id \in DOMAIN tracking
    THEN [tracking EXCEPT ![client_id] = ClosedState(@)]
    ELSE tracking

_is_websocket_degraded(tracking, client_id) ==
    Get(tracking, client_id, DefaultFailureInfo).degraded_mode

\* The circuit-breaker check at the head of _send_progress_request.
\* A breaker that stays open once it has opened.
CircuitBreakerActive_NeverExpires(failure_info, t) ==
    failure_info.circuit_breaker_until # None

CircuitBreakerActive(failure_info, t) ==
    /\ failure_info.circuit_breaker_until # None
    /\ t < failure_info.circuit_breaker_until

MaxRetries(failure_info) == IF failure_info.consecutive_failures < 3 THEN 2 ELSE 1

\* Lines 1601-1609: the timeout of each post, in tenths of a second.
BaseTimeout(connection_quality) == IF connection_quality = "poor" THEN 100 ELSE 50

RequestTimeout_Uncapped(connection_quality, consecutive_failures) ==
    IF consecutive_failures > 0
    THEN (BaseTimeout(connection_quality) * (2 + consecutive_failures)) \div 2
    ELSE BaseTimeout(connection_quality)

RequestTimeout(connection_quality, consecutive_failures) ==
    IF consecutive_failures > 0
    THEN Min((BaseTimeout(connection_quality) * (2 + consecutive_failures)) \div 2,
             TimeoutCap)
    ELSE BaseTimeout(connection_quality)

\* The retry loop: results[i] is what the i-th requests.post would do.
\* Returns whether one attempt succeeded and how many posts were made.
RECURSIVE PostAttempts(_, _, _)
PostAttempts(results, max_retries, attempt) ==
    LET r == results[attempt + 1] IN
    IF r = "ok" THEN [success |-> TRUE, calls |-> attempt + 1]
    ELSE IF r = "http" THEN [success |-> FALSE, calls |-> attempt + 1]
    ELSE IF attempt < max_retries THEN PostAttempts(results, max_retries, attempt + 1)
    ELSE [success |-> FALSE, calls |-> attempt + 1]

\* Every failed post of the call is counted as a failure of its own.
_send_progress_request_CountsPosts(tracking, client_id, t, results, d) ==
    LET failure_info == Get(tracking, client_id, DefaultFailureInfo) IN
    IF CircuitBreakerActive(failure_info, t)
    THEN [tracking |-> tracking, success |-> FALSE, calls |-> 0, skipped |-> TRUE,
          elapsed |-> 0]
    ELSE LET post == PostAttempts(results, MaxRetries(failure_info), 0)
             once == _handle_websocket_failure(tracking, client_id, t + d)
         IN
         [tracking |-> IF post.success
                       THEN _reset_websocket_failure_tracking(tracking, client_id)
                       ELSE IF post.calls = 1 THEN once
                       ELSE _handle_websocket_failure(once, client_id, t + d),
          success |-> post.success, calls |-> post.calls, skipped |-> FALSE,
          elapsed |-> d]

\* _send_progress_request entered at time t; the posts take d seconds together.
_send_progress_request(tracking, client_id, t, results, d) ==
    LET failure_info == Get(tracking, client_id, DefaultFailureInfo) IN
    IF CircuitBreakerActive(failure_info, t)
    THEN [tracking |-> tracking, success |-> FALSE, calls |-> 0, skipped |-> TRUE,
          elapsed |-> 0]
    ELSE LET post == PostAttempts(results, MaxRetries(failure_info), 0) IN
         [tracking |-> IF post.success
                       THEN _reset_websocket_failure_tracking(tracking, client_id)
                       ELSE _handle_websocket_failure(tracking, client_id, t + d),
          success |-> post.success, calls |-> post.calls, skipped |-> FALSE,
          elapsed |-> d]

\* ------------------------------------------------------------ DeliveryThrottle
HugeTimeDiff == 1000000
ResponseTimesKept == 20

DefaultProgressCache ==
    [last_progress_update |-> None, last_progress |-> 0, update_count |-> 0]
DefaultQualityCache == [failed_requests |-> 0, response_times |-> <<>>]

\* metadata=None of send_throttled_progress_update.
NoMetadata ==
    [present |-> FALSE, progress_type |-> "real", fallback_active |-> FALSE,
     current_phase |-> "downloading", is_stalled |-> FALSE]

\* (current_time - last_update).total_seconds(); the default is datetime.min.
TimeDiff(last_update, t) == IF last_update = None THEN HugeTimeDiff ELSE t - last_update

\* max(time_diff, 0.1) in tenths of a second: equal clock values are
\* microseconds apart, so the divisor is then 0.1.
RateDivisor(time_diff) == IF time_diff = 0 THEN 1 ELSE time_diff * 10

\* progress_rate > x10/10 and progress_rate < x10/10 (percent per second), with
\* progress_rate = progress_diff / max(time_diff, 0.1).
RateAbove(progress_diff, time_diff, x10) == progress_diff > RateDivisor(time_diff) * x10
RateBelow(progress_diff, time_diff, x10) == progress_diff < RateDivisor(time_diff) * x10

RECURSIVE SumSeq(_)
SumSeq(s) == IF s = <<>> THEN 0 ELSE Head(s) + SumSeq(Tail(s))
LastN(s, n) == IF Len(s) <= n THEN s ELSE SubSeq(s, Len(s) - n + 1, Len(s))

\* avg_response_time > x seconds; with no response time yet the average is 0.5.
AvgResponseAbove(response_times, x) ==
    LET recent == LastN(response_times, 10) IN
    IF recent = <<>> THEN FALSE ELSE SumSeq(recent) > x * Len(recent)

_assess_connection_quality(failed_requests, response_times, update_count) ==
    IF update_count = 0 THEN "good"
    ELSE IF 10 * failed_requests > 3 * Max(update_count, 1)
            \/ AvgResponseAbove(response_times, 2) THEN "poor"
    ELSE IF 10 * failed_requests > Max(update_count, 1)
            \/ AvgResponseAbove(response_times, 1) THEN "fair"
    ELSE "good"

\* The thresholds of _get_adaptive_throttling_config, in thousandths.
RateConfig(progress_diff, time_diff) ==
    IF RateAbove(progress_diff, time_diff, 50)
    THEN [min_progress_diff |-> 1000, min_time_diff |-> 1000, max_time_diff |-> 5000]
    ELSE IF RateAbove(progress_diff, time_diff, 20)
    THEN [min_progress_diff |-> 1500, min_time_diff |-> 1500, max_time_diff |-> 5000]
    ELSE IF RateBelow(progress_diff, time_diff, 1)
    THEN [min_progress_diff |-> 500, min_time_diff |-> 3000, max_time_diff |-> 5000]
    ELSE [min_progress_diff |-> 2000, min_time_diff |-> 2000, max_time_diff |-> 5000]

QualityConfig(config, connection_quality) ==
    IF connection_quality = "poor"
    THEN [config EXCEPT !.min_time_diff = Max((@ * 15) \div 10, 3000),
                        !.max_time_diff = Min((@ * 15) \div 10, 10000)]
    ELSE IF connection_quality = "good"
    THEN [config EXCEPT !.min_time_diff = Max((@ * 8) \div 10, 1000)]
    ELSE config

\* Degraded mode widens the intervals by a fifth only.
DegradedConfig_Mild(config, is_degraded) ==
    IF is_degraded
    THEN [config EXCEPT !.min_time_diff = (@ * 12) \div 10,
                        !.max_time_diff = (@ * 12) \div 10,
                        !.min_progress_diff = Max((@ * 15) \div 10, 5000)]
    ELSE config

DegradedConfig(config, is_degraded) ==
    IF is_degraded
    THEN [config EXCEPT !.min_time_diff = Max(@ * 2, 5000),
                        !.max_time_diff = Min(@ * 2, 15000),
                        !.min_progress_diff = Max((@ * 15) \div 10, 5000)]
    ELSE config

MetadataConfig(config, metadata) ==
    IF ~metadata.present THEN config
    ELSE LET typed == IF metadata.progress_type \in {"simulated", "hybrid"}
                      THEN [config EXCEPT
                                !.min_time_diff = Max((@ * 7) \div 10, 1000),
                                !.min_progress_diff = Max((@ * 7) \div 10, 500)]
                      ELSE config
         IN  IF metadata.is_stalled
             THEN [typed EXCEPT !.min_time_diff = Max((@ * 5) \div 10, 1000)]
             ELSE typed

_get_adaptive_throttling_config(progress_diff, time_diff, connection_quality, metadata, is_degraded) ==
    MetadataConfig(
        DegradedConfig(
            QualityConfig(RateConfig(progress_diff, time_diff), connection_quality),
            is_degraded),
        metadata)

\* should_send_update without the two tests on progress itself.
ShouldSendUpdate_NoBypass(progress, progress_diff, time_diff, config, metadata) ==
    \/ progress_diff * 10 >= config.min_progress_diff
    \/ time_diff * 1000 >= config.max_time_diff
    \/ (time_diff * 1000 >= config.min_time_diff /\ RateAbove(progress_diff, time_diff, 1))
    \/ (metadata.present /\ metadata.progress_type # "real")

\* should_send_update of send_throttled_progress_update.
ShouldSendUpdate(progress, progress_diff, time_diff, config, metadata) ==
    \/ progress_diff * 10 >= config.min_progress_diff
    \/ time_diff * 1000 >= config.max_time_diff
    \/ (time_diff * 1000 >= config.min_time_diff /\ RateAbove(progress_diff, time_diff, 1))
    \/ progress >= 9900
    \/ progress <= 100
    \/ (metadata.present /\ metadata.progress_type # "real")

\* The cache entries after the delivery returned.
DeliveryBookkeeping_AlwaysCaches(pcache, qcache, client_id, progress, t, sent) ==
    LET cached == Get(pcache, client_id, DefaultProgressCache)
        quality == Get(qcache, client_id, DefaultQualityCache)
    IN  [pcache |-> Put(pcache, client_id,
                        [last_progress_update |-> t, last_progress |-> progress,
                         update_count |-> cached.update_count + 1]),
         qcache |-> IF sent.success
                    THEN Put(qcache, client_id,
                             [failed_requests |-> Max(0, quality.failed_requests - 1),
                              response_times |->
                                  LastN(Append(quality.response_times, sent.elapsed),
                                        ResponseTimesKept)])
                    ELSE Put(qcache, client_id,
                             [quality EXCEPT !.failed_requests = @ + 1])]

DeliveryBookkeeping(pcache, qcache, client_id, progress, t, sent) ==
    LET cached == Get(pcache, client_id, DefaultProgressCache)
        quality == Get(qcache, client_id, DefaultQualityCache)
    IN  IF sent.success
        THEN [pcache |-> Put(pcache, client_id,
                             [last_progress_update |-> t, last_progress |-> progress,
                              update_count |-> cached.update_count + 1]),
              qcache |-> Put(qcache, client_id,
                             [failed_requests |-> Max(0, quality.failed_requests - 1),
                              response_times |->
                                  LastN(Append(quality.response_times, sent.elapsed),
                                        ResponseTimesKept)])]
        ELSE [pcache |-> pcache,
              qcache |-> Put(qcache, client_id,
                             [quality EXCEPT !.failed_requests = @ + 1])]

\* Lines 1548-1567: the indicators a payload takes from the metadata, or the
\* defaults when no metadata came.
PayloadIndicators(metadata) ==
    IF metadata.present
    THEN [progress_type |-> Get(metadata, "progress_type", "real"),
          fallback_active |-> Get(metadata, "fallback_active", FALSE),
          current_phase |-> Get(metadata, "current_phase", "downloading"),
          is_stalled |-> Get(metadata, "is_stalled", FALSE)]
    ELSE [progress_type |-> "real", fallback_active |-> FALSE,
          current_phase |-> "downloading", is_stalled |-> FALSE]

\* Lines 1554-1562: the optional keys, each added only if its value is truthy.
PayloadElapsed(metadata) ==
    IF metadata.present /\ Get(metadata, "time_since_start", 0) # 0
    THEN [elapsed_time |-> metadata.time_since_start] ELSE EmptyTable

PayloadFallback(metadata) ==
    IF metadata.present /\ Get(metadata, "fallback_active", FALSE)
    THEN (IF "fallback_phase" \in DOMAIN metadata
          THEN [fallback_phase |-> metadata.fallback_phase] ELSE EmptyTable)
         @@ (IF Get(metadata, "estimated_duration", 0) # 0
             THEN [estimated_duration |-> metadata.estimated_duration] ELSE EmptyTable)
    ELSE EmptyTable

\* The payload as a function on the keys it holds (speed, eta and file size,
\* which the model does not carry, are left out with their keys).
_build_enhanced_progress_payload_NoDefaults(progress, metadata, throttling_config) ==
    [status |-> "downloading", progress |-> progress,
     throttling_config |-> [min_time_diff |-> throttling_config.min_time_diff,
                            min_progress_diff |-> throttling_config.min_progress_diff]]
    @@ (IF metadata.present THEN PayloadIndicators(metadata) ELSE EmptyTable)
    @@ PayloadElapsed(metadata) @@ PayloadFallback(metadata)

_build_enhanced_progress_payload(progress, metadata, throttling_config) ==
    [status |-> "downloading", progress |-> progress,
     throttling_config |-> [min_time_diff |-> throttling_config.min_time_diff,
                            min_progress_diff |-> throttling_config.min_progress_diff]]
    @@ PayloadIndicators(metadata) @@ PayloadElapsed(metadata) @@ PayloadFallback(metadata)

\* send_throttled_progress_update entered at time t.
send_throttled_progress_update(tracking, pcache, qcache, client_id, progress, metadata, t, results, d) ==
    LET cached == Get(pcache, client_id, DefaultProgressCache)
        quality == Get(qcache, client_id, DefaultQualityCache)
        time_diff == TimeDiff(cached.last_progress_update, t)
        progress_diff == Abs(progress - cached.last_progress)
        connection_quality ==
            _assess_connection_quality(quality.failed_requests, quality.response_times,
                                       cached.update_count)
        config == _get_adaptive_throttling_config(
                      progress_diff, time_diff, connection_quality, metadata,
                      _is_websocket_degraded(tracking, client_id))
    IN  IF ShouldSendUpdate(progress, progress_diff, time_diff, config, metadata)
        THEN LET sent == _send_progress_request(tracking, client_id, t, results, d)
                 kept == DeliveryBookkeeping(pcache, qcache, client_id, progress, t, sent)
             IN  [tracking |-> sent.tracking, pcache |-> kept.pcache,
                  qcache |-> kept.qcache, decided |-> TRUE, success |-> sent.success,
                  calls |-> sent.calls, skipped |-> sent.skipped,
                  elapsed |-> sent.elapsed, config |-> config]
        ELSE [tracking |-> tracking, pcache |-> pcache, qcache |-> qcache,
              decided |-> FALSE, success |-> FALSE, calls |-> 0, skipped |-> FALSE,
              elapsed |-> 0, config |-> config]

\* ------------------------------------------------------------ FallbackProgressGenerator
DefaultEstimatedDuration == 300
SimulationCap == 9500

\* download_patterns: the size class of an estimated duration.
PatternFor(estimated_duration) ==
    IF estimated_duration <= 120 THEN "small_file"
    ELSE IF estimated_duration <= 600 THEN "medium_file"
    ELSE "large_file"

\* phases[phase]["duration_ratio"] after the pattern was applied, in twentieths.
DurationRatio(pattern, phase) ==
    IF pattern = "small_file"
    THEN (IF phase = "initialization" THEN 1 ELSE IF phase = "downloading" THEN 17 ELSE 2)
    ELSE IF pattern = "medium_file"
    THEN (IF phase = "initialization" THEN 2 ELSE IF phase = "downloading" THEN 15 ELSE 3)
    ELSE (IF phase = "initialization" THEN 3 ELSE IF phase = "downloading" THEN 14 ELSE 3)

\* phases[phase]["progress_range"], "base_rate" (per second) and "variance".
ProgressRange(phase) ==
    IF phase = "initialization" THEN [min |-> 0, max |-> 1500]
    ELSE IF phase = "downloading" THEN [min |-> 1500, max |-> 8500]
    ELSE [min |-> 8500, max |-> 9500]
BaseRate(phase) ==
    IF phase = "initialization" THEN 50 ELSE IF phase = "downloading" THEN 80 ELSE 20
Variance(phase) ==
    IF phase = "initialization" THEN 30 ELSE IF phase = "downloading" THEN 20 ELSE 40

\* FallbackProgressGenerator(client_id, estimated_duration) constructed at time t.
FallbackProgressGenerator(estimated_duration, t) ==
    LET duration == IF estimated_duration = None \/ estimated_duration = 0
                    THEN DefaultEstimatedDuration ELSE estimated_duration
    IN  [start_time |-> t, estimated_duration |-> duration, current_progress |-> 0,
         current_phase |-> "initialization", last_update_time |-> t,
         pattern |-> PatternFor(duration)]

\* Durations are compared in twentieths of a second: elapsed20 = 20 * elapsed.
InitDuration20(gen) == gen.estimated_duration * DurationRatio(gen.pattern, "initialization")
DownloadDuration20(gen) == gen.estimated_duration * DurationRatio(gen.pattern, "downloading")

get_current_phase(gen, elapsed_seconds) ==
    IF elapsed_seconds * 20 <= InitDuration20(gen) THEN "initialization"
    ELSE IF elapsed_seconds * 20 <= InitDuration20(gen) + DownloadDuration20(gen)
    THEN "downloading"
    ELSE "finalizing"

\* 10000 * (r/100) ** 0.9 and 10000 * (r/100) ** 1.5 for r = 0..100, rounded.
Pow09 ==
    <<0, 158, 296, 426, 552, 675, 795, 913, 1030, 1145,
      1259, 1372, 1483, 1594, 1704, 1813, 1922, 2030, 2137, 2243,
      2349, 2455, 2560, 2664, 2768, 2872, 2975, 3078, 3180, 3282,
      3384, 3485, 3586, 3687, 3787, 3887, 3987, 4087, 4186, 4285,
      4384, 4482, 4581, 4679, 4776, 4874, 4971, 5069, 5166, 5262,
      5359, 5455, 5551, 5647, 5743, 5839, 5934, 6030, 6125, 6220,
      6314, 6409, 6504, 6598, 6692, 6786, 6880, 6974, 7067, 7161,
      7254, 7347, 7440, 7533, 7626, 7719, 7811, 7904, 7996, 8088,
      8181, 8272, 8364, 8456, 8548, 8639, 8731, 8822, 8913, 9004,
      9095, 9186, 9277, 9368, 9458, 9549, 9639, 9730, 9820, 9910,
      10000>>
Pow15 ==
    <<0, 10, 28, 52, 80, 112, 147, 185, 226, 270,
      316, 365, 416, 469, 524, 581, 640, 701, 764, 828,
      894, 962, 1032, 1103, 1176, 1250, 1326, 1403, 1482, 1562,
      1643, 1726, 1810, 1896, 1983, 2071, 2160, 2251, 2342, 2436,
      2530, 2625, 2722, 2820, 2919, 3019, 3120, 3222, 3326, 3430,
      3536, 3642, 3750, 3858, 3968, 4079, 4191, 4303, 4417, 4532,
      4648, 4764, 4882, 5000, 5120, 5240, 5362, 5484, 5607, 5732,
      5857, 5983, 6109, 6237, 6366, 6495, 6626, 6757, 6889, 7022,
      7155, 7290, 7425, 7562, 7699, 7837, 7975, 8115, 8255, 8396,
      8538, 8681, 8824, 8969, 9114, 9259, 9406, 9553, 9702, 9850,
      10000>>

\* adjusted_ratio in ten-thousandths, for phase_progress_ratio r in hundredths.
AdjustedRatio(phase, r) ==
    IF phase = "initialization" THEN 10000 - (100 - r) * (100 - r)
    ELSE IF phase = "downloading" THEN Pow09[r + 1]
    ELSE Pow15[r + 1]

\* calculate_phase_progress; phase_elapsed20 is 20 * phase_elapsed.
calculate_phase_progress(gen, phase_name, phase_elapsed20) ==
    LET range == ProgressRange(phase_name)
        phase_duration20 == gen.estimated_duration * DurationRatio(gen.pattern, phase_name)
        ratio == Min(100, (phase_elapsed20 * 100) \div phase_duration20)
        target == range.min + ((range.max - range.min) * AdjustedRatio(phase_name, ratio)) \div 10000
    IN  IF phase_duration20 <= 0 THEN range.min ELSE Min(range.max, target)

\* add_realistic_variance with variation = random.uniform(-variance, variance).
add_realistic_variance(gen, base_progress, variation) ==
    LET adjusted_progress == base_progress + variation IN
    IF adjusted_progress < gen.current_progress - 50
    THEN gen.current_progress - 10
    ELSE adjusted_progress

\* The forward clamp and the backward tolerance of update_progress.
SmoothedProgress_NoTolerance(current_progress, varied_progress, max_increment) ==
    IF varied_progress > current_progress + max_increment
    THEN current_progress + max_increment ELSE varied_progress

SmoothedProgress(current_progress, varied_progress, max_increment) ==
    LET forward == IF varied_progress > current_progress + max_increment
                   THEN current_progress + max_increment ELSE varied_progress
    IN  IF forward < current_progress - 10 THEN current_progress ELSE forward

\* The body of update_progress once the phase at time t is known.
UpdateInPhase(gen, t, variation, new_phase) ==
    LET elapsed_seconds == t - gen.start_time
        phase_elapsed20 ==
            IF new_phase = "initialization" THEN elapsed_seconds * 20
            ELSE IF new_phase = "downloading"
            THEN elapsed_seconds * 20 - InitDuration20(gen)
            ELSE elapsed_seconds * 20 - InitDuration20(gen) - DownloadDuration20(gen)
        target_progress == calculate_phase_progress(gen, new_phase, phase_elapsed20)
        varied_progress == add_realistic_variance(gen, target_progress, variation)
        max_increment == BaseRate(new_phase) * (t - gen.last_update_time) * 2
        smoothed == SmoothedProgress(gen.current_progress, varied_progress, max_increment)
    IN  [gen EXCEPT !.current_phase = new_phase,
                    !.current_progress = Min(SimulationCap, Max(0, smoothed)),
                    !.last_update_time = t]

\* update_progress at time t; the value returned is current_progress of the result.
update_progress(gen, t, variation) ==
    UpdateInPhase(gen, t, variation, get_current_phase(gen, t - gen.start_time))

adjust_duration_estimate(gen, new_estimate) ==
    IF new_estimate # None /\ new_estimate # 0 /\ new_estimate # gen.estimated_duration
    THEN [gen EXCEPT !.estimated_duration = new_estimate,
                     !.pattern = IF Abs(new_estimate - gen.estimated_duration) > 60
                                 THEN PatternFor(new_estimate) ELSE @]
    ELSE gen

\* The values random.uniform may return in a phase, on a grid of 0.05.
VariationGrid == {-40, -30, -20, -5, 0, 20, 30, 40}

\* ------------------------------------------------------------ ProgressState
FallbackTimeout == 5
StallTimeout == 15
MaxHistorySize == 10
MaxJump == 500

\* ProgressState(client_id) constructed at time t.  fallback_generator is <<>>
\* for None and <<generator>> otherwise; progress_history keeps the progress
\* component of the (timestamp, progress) tuples, the only one that is read.
ProgressState(t) ==
    [real_progress |-> None, simulated_progress |-> 0, last_real_update |-> None,
     fallback_active |-> FALSE, progress_history |-> <<>>, estimated_duration |-> None,
     download_start_time |-> t, current_phase |-> "initializing",
     last_progress_value |-> 0, stall_detection_time |-> None,
     progress_type |-> "real", fallback_generator |-> <<>>]

\* round(progress, 1) on hundredths of a percent (inputs are kept off the ties).
Round1(progress) == ((progress + 5) \div 10) * 10

_validate_progress(progress) ==
    IF progress < 0 THEN 0 ELSE IF progress > 10000 THEN 10000 ELSE Round1(progress)

\* _validate_progress with its except branch: comparing None raises TypeError,
\* which is counted and answered with None; a number is never refused.
ValidatedProgress(failures, progress) ==
    IF progress = None
    THEN [value |-> None, validation_failures |-> failures + 1]
    ELSE [value |-> _validate_progress(progress), validation_failures |-> failures]

\* Lines 274-276: None, negative values and values above 100 are refused.
ValidPercent_NoUpperBound(progress) == progress # None /\ progress >= 0

ValidPercent(progress) == progress # None /\ progress >= 0 /\ progress <= 10000

PhaseOfProgress(progress) ==
    IF progress < 500 THEN "initializing"
    ELSE IF progress < 9500 THEN "downloading"
    ELSE "finalizing"

\* Lines 283-288: append, then pop(0) once the list is longer than max_history_size.
AppendHistory_KeepsOldest(history, progress) ==
    LET appended == Append(history, progress)
    IN  IF Len(appended) > MaxHistorySize THEN SubSeq(appended, 1, MaxHistorySize)
        ELSE appended

AppendHistory(history, progress) ==
    LET appended == Append(history, progress)
    IN  IF Len(appended) > MaxHistorySize THEN Tail(appended) ELSE appended

AdjustGenerator(state, duration) ==
    IF state.fallback_generator = <<>> THEN state
    ELSE [state EXCEPT !.fallback_generator = <<adjust_duration_estimate(@[1], duration)>>]

\* update_estimated_duration_from_eta for an ETA string that parses.
update_estimated_duration_from_eta(state, t) ==
    LET elapsed == t - state.download_start_time IN
    IF state.real_progress # None /\ state.real_progress > 0
       /\ state.real_progress < 10000 /\ elapsed > 0
    THEN LET estimated_total == (10000 * elapsed) \div state.real_progress
         IN  AdjustGenerator([state EXCEPT !.estimated_duration = estimated_total],
                             estimated_total)
    ELSE state

set_estimated_duration(state, duration_seconds) ==
    IF duration_seconds # None /\ duration_seconds > 0
    THEN AdjustGenerator([state EXCEPT !.estimated_duration = duration_seconds],
                         duration_seconds)
    ELSE state

\* Lines 310-312: fallback is dropped when the sample exceeds simulated_progress.
DeactivateFallback_Never(state, progress) == state

DeactivateFallback(state, progress) ==
    IF state.fallback_active /\ progress > state.simulated_progress
    THEN [state EXCEPT !.fallback_active = FALSE]
    ELSE state

\* Lines 278-281: the sample is stored as it was given.
StoreRealProgress_Rounded(state, progress, t) ==
    [state EXCEPT !.real_progress = Round1(progress), !.last_real_update = t,
                  !.progress_type = "real"]

StoreRealProgress_KeepsType(state, progress, t) ==
    [state EXCEPT !.real_progress = progress, !.last_real_update = t]

StoreRealProgress(state, progress, t) ==
    [state EXCEPT !.real_progress = progress, !.last_real_update = t,
                  !.progress_type = "real"]

\* update_real_progress; has_eta says whether a parseable eta came with the sample.
update_real_progress(state, progress, has_eta, t) ==
    IF ~ValidPercent(progress) THEN [state |-> state, value |-> FALSE]
    ELSE
    LET stored == StoreRealProgress(state, progress, t)
        recorded == [stored EXCEPT
            !.progress_history = AppendHistory(@, progress),
            !.current_phase = PhaseOfProgress(progress),
            !.stall_detection_time =
                IF progress > state.last_progress_value THEN None
                ELSE IF @ = None THEN t ELSE @,
            !.last_progress_value =
                IF progress > state.last_progress_value THEN progress ELSE @]
        estimated == IF has_eta /\ recorded.estimated_duration = None
                     THEN update_estimated_duration_from_eta(recorded, t)
                     ELSE recorded
    IN  [state |-> DeactivateFallback(estimated, progress), value |-> TRUE]

activate_fallback(state, t) ==
    IF state.fallback_active THEN state
    ELSE LET created == FallbackProgressGenerator(state.estimated_duration, t)
             seeded == IF state.real_progress # None
                       THEN [created EXCEPT !.current_progress = state.real_progress]
                       ELSE created
         IN  [state EXCEPT
                !.fallback_active = TRUE,
                !.progress_type = IF state.real_progress = None THEN "simulated" ELSE "hybrid",
                !.fallback_generator = IF @ = <<>> THEN <<seeded>> ELSE @]

StoreGenerator(state, updated) ==
    [state |-> [state EXCEPT !.fallback_generator = <<updated>>],
     value |-> updated.current_progress]

get_simulated_progress(state, t, variation) ==
    StoreGenerator(state,
        update_progress(IF state.fallback_generator = <<>>
                        THEN FallbackProgressGenerator(state.estimated_duration, t)
                        ELSE state.fallback_generator[1],
                        t, variation))

\* The two timeouts that make get_current_progress switch to the fallback.
FallbackDue_Late(state, t) ==
    IF state.last_real_update = None
    THEN t - state.download_start_time > StallTimeout
    ELSE t - state.last_real_update > StallTimeout

FallbackDue(state, t) ==
    IF state.last_real_update = None
    THEN t - state.download_start_time > FallbackTimeout
    ELSE t - state.last_real_update > StallTimeout

\* Lines 377-383: which progress value get_current_progress returns.
ReturnProgress(checked, t, variation) ==
    IF checked.fallback_active \/ checked.real_progress = None
    THEN get_simulated_progress(checked, t, variation)
    ELSE [state |-> checked, value |-> checked.real_progress]

get_current_progress(state, t, variation) ==
    ReturnProgress(IF ~state.fallback_active /\ FallbackDue(state, t)
                   THEN activate_fallback(state, t) ELSE state,
                   t, variation)

is_stalled(state, t) ==
    state.stall_detection_time # None /\ t - state.stall_detection_time > StallTimeout

\* Lines 436-444: the keys added while the fallback is active.
FallbackMetadata(state) ==
    IF state.fallback_active /\ state.fallback_generator # <<>>
    THEN [fallback_phase |-> state.fallback_generator[1].current_phase,
          estimated_duration |-> state.fallback_generator[1].estimated_duration]
    ELSE EmptyTable

\* A dict is a function on the keys it holds; present is false for None and {}.
get_progress_metadata(state, t) ==
    [present |-> TRUE, progress_type |-> state.progress_type,
     fallback_active |-> state.fallback_active, current_phase |-> state.current_phase,
     is_stalled |-> is_stalled(state, t),
     time_since_start |-> t - state.download_start_time] @@ FallbackMetadata(state)

\* smooth_progress_updates: the mean of the last three samples, unless it is
\* more than max_jump away from real_progress.
smooth_progress_updates(state) ==
    LET recent_values == LastN(state.progress_history, 3)
        total == SumSeq(recent_values)
        count == Len(recent_values)
    IN  IF Len(state.progress_history) < 2 THEN state.real_progress
        ELSE IF state.real_progress # None
                /\ Abs(total - count * state.real_progress) > count * MaxJump
        THEN state.real_progress
        ELSE total \div count

\* ------------------------------------------------------------ Coordinator
\* Both report, next to the state and the value returned, the values the
\* generator returned during the call, in order (generated).
WithGenerated(out) ==
    [state |-> out.state, value |-> out.value,
     generated |-> IF out.state.fallback_active \/ out.state.real_progress = None
                   THEN <<out.value>> ELSE <<>>]

CurrentProgress(state, t, variation) ==
    WithGenerated(get_current_progress(state, t, variation))

\* Lines 1186-1189: the simulated value is read for the comparison (first) and,
\* when real progress is ahead, once more for the log line (second).
Resumed(second, first_value) ==
    [state |-> [second.state EXCEPT !.fallback_active = FALSE, !.progress_type = "real"],
     generated |-> <<first_value, second.value>>]

CompareWithSimulated(state, first, t, variation) ==
    IF state.real_progress > first.value
    THEN Resumed(get_simulated_progress(first.state, t, variation), first.value)
    ELSE [state |-> first.state, generated |-> <<first.value>>]

\* Lines 1168-1189: activate the fallback on a timeout, or leave it again.
Transition(state, t, v) ==
    IF ~state.fallback_active
    THEN [state |-> IF FallbackDue(state, t) THEN activate_fallback(state, t) ELSE state,
          generated |-> <<>>]
    ELSE IF state.real_progress # None
    THEN CompareWithSimulated(state, get_simulated_progress(state, t, v[1]), t, v[2])
    ELSE [state |-> state, generated |-> <<>>]

\* Line 1191: the value and the metadata returned.
Reported(generated, current, t) ==
    [state |-> current.state, value |-> current.value,
     metadata |-> get_progress_metadata(current.state, t),
     generated |-> generated \o current.generated]

Continued(checked, t, variation) ==
    Reported(checked.generated, CurrentProgress(checked.state, t, variation), t)

\* _ensure_progress_continuity; v is the variance drawn by each generator call.
_ensure_progress_continuity(state, t, v) == Continued(Transition(state, t, v), t, v[3])

\* Lines 1210-1215: the smoothed value replaces the one returned if it differs.
ApplySmoothing(continued, smoothed_progress) ==
    [continued EXCEPT !.value =
        IF continued.state.real_progress # None /\ ~continued.state.fallback_active
           /\ smoothed_progress # continued.state.real_progress
        THEN smoothed_progress ELSE @]

Coordinated(continued) ==
    ApplySmoothing(continued, smooth_progress_updates(continued.state))

manage_progress_coordination(state, progress, has_eta, t, v) ==
    Coordinated(_ensure_progress_continuity(
        IF progress # None
        THEN update_real_progress(state, progress, has_eta, t).state
        ELSE state, t, v))

\* ------------------------------------------------------------ StallDetector
ProgressMoved == 10
InitializationLimit == 500
FinalizationLimit == 9500
InitializationThreshold == 30
FinalizationThreshold == 45
ActiveThreshold == 20
SlowStartSeconds == 600
SlowStartProgress == 1000
TerminateWait == 10

\* The stall_info _detect_download_stall starts from at time t.
DefaultStallInfo(t) ==
    [last_progress_change |-> t, last_progress_value |-> 0, stall_warnings |-> 0,
     recovery_attempts |-> 0, process_start_time |-> t]

\* progress_state.real_progress or 0.0
RealProgressOrZero(state) == IF state.real_progress = None THEN 0 ELSE state.real_progress

StallThreshold_Flat(current_progress) == InitializationThreshold

StallThreshold(current_progress) ==
    IF current_progress < InitializationLimit THEN InitializationThreshold
    ELSE IF current_progress > FinalizationLimit THEN FinalizationThreshold
    ELSE ActiveThreshold

StallReason(stall_info, current_progress, t) ==
    IF t - stall_info.last_progress_change > StallThreshold(current_progress)
    THEN "no_progress"
    ELSE IF t - stall_info.process_start_time > SlowStartSeconds
            /\ current_progress < SlowStartProgress
    THEN "slow_start"
    ELSE "active"

\* Progress that resumes also forgets the recovery attempts made.
DetectFrom_ForgetsRecovery(detection, client_id, stall_info, current_progress, reason, t) ==
    IF current_progress > stall_info.last_progress_value + ProgressMoved
    THEN [detection |-> Put(detection, client_id,
                            [stall_info EXCEPT !.last_progress_change = t,
                                               !.last_progress_value = current_progress,
                                               !.stall_warnings = 0,
                                               !.recovery_attempts = 0]),
          is_stalled |-> FALSE, stall_reason |-> "active"]
    ELSE [detection |-> Put(detection, client_id,
                            [stall_info EXCEPT !.stall_warnings =
                                IF reason = "active" THEN @ ELSE @ + 1]),
          is_stalled |-> reason # "active", stall_reason |-> reason]

\* Lines 1402-1446, for the stall_info read and the progress seen.
DetectFrom(detection, client_id, stall_info, current_progress, reason, t) ==
    IF current_progress > stall_info.last_progress_value + ProgressMoved
    THEN [detection |-> Put(detection, client_id,
                            [stall_info EXCEPT !.last_progress_change = t,
                                               !.last_progress_value = current_progress,
                                               !.stall_warnings = 0]),
          is_stalled |-> FALSE, stall_reason |-> "active"]
    ELSE [detection |-> Put(detection, client_id,
                            [stall_info EXCEPT !.stall_warnings =
                                IF reason = "active" THEN @ ELSE @ + 1]),
          is_stalled |-> reason # "active", stall_reason |-> reason]

DetectWith(detection, client_id, stall_info, current_progress, t) ==
    DetectFrom(detection, client_id, stall_info, current_progress,
               StallReason(stall_info, current_progress, t), t)

_detect_download_stall(detection, state, client_id, t) ==
    DetectWith(detection, client_id, Get(detection, client_id, DefaultStallInfo(t)),
               RealProgressOrZero(state), t)

\* Lines 1468-1515.  alive is process.poll() is None at the handler's own
\* poll; exit_delay is how long the process takes to exit after SIGTERM, and
\* process.wait(timeout=10) returns after at most 10 s of it.  sent lists the
\* signals sent, elapsed the time the call took.
RecoverFrom_KillFirst(detection, state, client_id, stall_info, alive, exit_delay, t) ==
    IF stall_info.recovery_attempts = 0 /\ alive
    THEN [detection |-> Put(detection, client_id, [stall_info EXCEPT !.recovery_attempts = 1]),
          state |-> activate_fallback(state, t), success |-> TRUE,
          sent |-> <<"kill">>, elapsed |-> 0]
    ELSE IF stall_info.recovery_attempts = 1 /\ alive
    THEN [detection |-> Put(detection, client_id, [stall_info EXCEPT !.recovery_attempts = 2]),
          state |-> activate_fallback(state, t), success |-> TRUE,
          sent |-> <<"terminate">>, elapsed |-> Min(exit_delay, TerminateWait)]
    ELSE [detection |-> detection, state |-> state, success |-> FALSE,
          sent |-> <<>>, elapsed |-> 0]

RecoverFrom(detection, state, client_id, stall_info, alive, exit_delay, t) ==
    IF stall_info.recovery_attempts = 0 /\ alive
    THEN [detection |-> Put(detection, client_id, [stall_info EXCEPT !.recovery_attempts = 1]),
          state |-> activate_fallback(state, t + Min(exit_delay, TerminateWait)),
          success |-> TRUE,
          sent |-> <<"terminate">>, elapsed |-> Min(exit_delay, TerminateWait)]
    ELSE IF stall_info.recovery_attempts = 1 /\ alive
    THEN [detection |-> Put(detection, client_id, [stall_info EXCEPT !.recovery_attempts = 2]),
          state |-> activate_fallback(state, t), success |-> TRUE,
          sent |-> <<"kill">>, elapsed |-> 0]
    ELSE [detection |-> detection, state |-> state, success |-> FALSE,
          sent |-> <<>>, elapsed |-> 0]

\* Called after _detect_download_stall has stored the client's stall_info.
_handle_download_stall(detection, state, client_id, alive, exit_delay, t) ==
    RecoverFrom(detection, state, client_id, detection[client_id], alive, exit_delay, t)

\* Line 1827 when no stall was detected: the handler is not called.
NotHandled(detection, state) ==
    [detection |-> detection, state |-> state, success |-> FALSE, sent |-> <<>>,
     elapsed |-> 0]

Remove(table, key) == [k \in DOMAIN table \ {key} |-> table[k]]

_reset_stall_detection(detection, client_id) == Remove(detection, client_id)

\* ------------------------------------------------------------ parse failures
ParsingFailureLimit == 3

_reset_parsing_failure_count(counts, client_id) ==
    IF client_id \in DOMAIN counts THEN [counts EXCEPT ![client_id] = 0] ELSE counts

\* ------------------------------------------------------------ download_file
\* The tables a step of download_file works on, with the generator's returns.
World ==
    [states |-> _progress_states, tracking |-> _websocket_failure_tracking,
     pcache |-> _progress_cache, qcache |-> _connection_quality_cache,
     detection |-> _stall_detection, counts |-> _parsing_failure_counts,
     generated |-> <<>>, elapsed |-> 0]

\* In a download every post is answered at once; the generator draws no variance.
DeliveredResults == <<"ok", "ok", "ok">>
NoVariation == <<0, 0, 0>>

\* The coordinator's state is stored only when the delivery succeeded.
Delivered_OnlyWhenSent(w, c, out, sent) ==
    [w EXCEPT !.states = Put(@, c, IF sent.decided /\ ~sent.success
                                   THEN Get(w.states, c, out.state) ELSE out.state),
              !.tracking = sent.tracking,
              !.pcache = sent.pcache, !.qcache = sent.qcache,
              !.generated = @ \o out.generated, !.elapsed = @ + sent.elapsed]

Delivered(w, c, out, sent) ==
    [w EXCEPT !.states = Put(@, c, out.state), !.tracking = sent.tracking,
              !.pcache = sent.pcache, !.qcache = sent.qcache,
              !.generated = @ \o out.generated, !.elapsed = @ + sent.elapsed]

\* send_throttled_progress_update after manage_progress_coordination returned out.
DeliverWith(w, c, out, progress, metadata, t, results, d) ==
    Delivered(w, c, out,
              send_throttled_progress_update(w.tracking, w.pcache, w.qcache, c, progress,
                                             metadata, t, results, d))

Deliver(w, c, out, progress, metadata, t) ==
    DeliverWith(w, c, out, progress, metadata, t, DeliveredResults, 0)

ReportManaged(w, c, out, t) == Deliver(w, c, out, out.value, out.metadata, t)

\* Lines 850-870 and 1837-1859 for a channel whose posts end as results say
\* and take d seconds: the coordination call, then the throttled update.
ReportManagedWith(w, c, out, t, results, d) ==
    DeliverWith(w, c, out, out.value, out.metadata, t, results, d)

ReportWith(w, c, progress, t, results, d) ==
    ReportManagedWith([w EXCEPT !.counts = IF progress = None THEN @
                                           ELSE _reset_parsing_failure_count(@, c)], c,
        manage_progress_coordination(Get(w.states, c, ProgressState(t)), progress, FALSE,
                                     t, NoVariation), t, results, d)

\* parse_progress_line for a line that carries the sample progress (already
\* passed through _validate_progress), or no progress at all (None).
parse_progress_line(w, c, progress, has_eta, t) ==
    IF progress = None THEN w
    ELSE ReportManaged([w EXCEPT !.counts = _reset_parsing_failure_count(@, c)], c,
             manage_progress_coordination(Get(w.states, c, ProgressState(t)), progress,
                                          has_eta, t, NoVariation), t)

\* The baseline update download_file sends before it starts the process.
_start_progress_monitoring(w, c, t) ==
    ReportManaged(w, c,
        manage_progress_coordination(Get(w.states, c, ProgressState(t)), None, FALSE, t,
                                     NoVariation), t)

\* Lines 1836-1860: the periodic update, with the detector's is_stalled.
HeartbeatManaged(w, c, out, stalled, t) ==
    Deliver(w, c, out, out.value, [out.metadata EXCEPT !.is_stalled = stalled], t)

Heartbeat(w, c, stalled, t) ==
    HeartbeatManaged(w, c,
        manage_progress_coordination(Get(w.states, c, ProgressState(t)), None, FALSE, t,
                                     NoVariation), stalled, t)

\* Lines 2069-2085: the final update and the resets of a successful download.
CompletedManaged(w, c, out, t) == Deliver(w, c, out, 10000, out.metadata, t)

Completed(w, c, t) ==
    CompletedManaged(w, c,
        manage_progress_coordination(Get(w.states, c, ProgressState(t)), 10000, FALSE, t,
                                     NoVariation), t)

\* Lines 899-912: the forced fallback and the update sent with it.
ForcedFallback(w, c, out, t) ==
    Deliver(w, c, out, out.value, get_progress_metadata(out.state, t), t)

ParsingFailureHandled(w, c, current_failures, state, t) ==
    IF current_failures >= ParsingFailureLimit
    THEN ForcedFallback([w EXCEPT !.counts = Put(@, c, current_failures + 1)], c,
                        CurrentProgress(activate_fallback(state, t), t, 0), t)
    ELSE [w EXCEPT !.counts = Put(@, c, current_failures + 1),
                   !.states = Put(@, c, state)]

_handle_progress_parsing_failure(w, c, t) ==
    ParsingFailureHandled(w, c, Get(w.counts, c, 0), Get(w.states, c, ProgressState(t)), t)

ResetTrackers(w, c) ==
    [w EXCEPT !.detection = _reset_stall_detection(@, c),
              !.tracking = _reset_websocket_failure_tracking(@, c),
              !.counts = _reset_parsing_failure_count(@, c)]

\* key.startswith(prefix) on Python strings.
StartsWith(key, prefix) ==
    Len(key) >= Len(prefix) /\ SubSeq(key, 1, Len(prefix)) = prefix

\* Lines 1112-1120: every cache key that starts with f"{client_id}_" is
\* deleted.  The caches hold, for a client d, the keys f"{d}_<name>", name
\* being one of the key names of lines 1233-1237.
RemovePrefixed(cache, client_id, name) ==
    [d \in {k \in DOMAIN cache : ~StartsWith(k \o "_" \o name, client_id \o "_")}
        |-> cache[d]]

cleanup_progress_state(w, c) ==
    [w EXCEPT !.states = Remove(@, c),
              !.detection = _reset_stall_detection(@, c),
              !.tracking = _reset_websocket_failure_tracking(@, c),
              !.counts = _reset_parsing_failure_count(@, c),
              !.pcache = RemovePrefixed(@, c, "last_progress_update"),
              !.qcache = RemovePrefixed(@, c, "failed_requests")]

\* ------------------------------------------------------------ delivery: actions
Clients == {"job1"}
AttemptOutcomes == {"ok", "timeout", "connection", "http", "unexpected"}
\* What the posts of one call may do: one sequence per way through the retry
\* loop for a direct call, and a few of them for a throttled update.
AttemptResults ==
    {<<"ok", "ok", "ok">>, <<"http", "ok", "ok">>, <<"timeout", "ok", "ok">>,
     <<"connection", "http", "ok">>, <<"timeout", "connection", "ok">>,
     <<"connection", "timeout", "http">>, <<"timeout", "connection", "connection">>}
ThrottledResults ==
    {<<"ok", "ok", "ok">>, <<"http", "ok", "ok">>,
     <<"connection", "unexpected", "timeout">>}
Latencies == {0, 10}
\* payload["throttling_config"]["connection_quality"]: absent (good) or poor.
PayloadQualities == {"good", "poor"}
BreakerTicks == {20, 60}
DeliveryTicks == {10}
ThrottleProgress == {50, 4000, 9950}
\* No metadata (a real update), or that of a simulated value.
ThrottleMetadata ==
    {NoMetadata,
     [present |-> TRUE, progress_type |-> "simulated", fallback_active |-> TRUE,
      current_phase |-> "downloading", is_stalled |-> FALSE]}

FailureInfoOf(c) == Get(_websocket_failure_tracking, c, DefaultFailureInfo)
ProgressCacheOf(c) == Get(_progress_cache, c, DefaultProgressCache)
QualityCacheOf(c) == Get(_connection_quality_cache, c, DefaultQualityCache)

\* Counters are capped so that the reachable states are finitely many.
WithinCaps(c) ==
    /\ FailureInfoOf(c).total_failures < MaxFailures
    /\ QualityCacheOf(c).failed_requests < MaxFailures
    /\ ProgressCacheOf(c).update_count < MaxUpdates

Init ==
    /\ now = 0
    /\ _websocket_failure_tracking = EmptyTable
    /\ _progress_cache = EmptyTable
    /\ _connection_quality_cache = EmptyTable
    /\ _progress_states = EmptyTable
    /\ last_simulated = EmptyTable
    /\ _stall_detection = EmptyTable
    /\ downloads = EmptyTable
    /\ _parsing_failure_counts = EmptyTable
    /\ validation_failures = 0
    /\ tracking_created = FALSE
    /\ threads = EmptyTable
    /\ active_connections = EmptyTable
    /\ websockets = EmptyTable
    /\ obs = [op |-> "init"]

Tick(steps, limit) ==
    /\ \E d \in steps : now + d <= limit /\ now' = now + d
    /\ obs' = [op |-> "tick"]
    /\ UNCHANGED <<deliveryVars, progressVars, stallVars, parseVars, threadVars, serverVars>>

\* A direct call of _handle_websocket_failure (as the unit tests make).
HandleWebsocketFailure(c) ==
    /\ WithinCaps(c)
    /\ _websocket_failure_tracking' =
           _handle_websocket_failure(_websocket_failure_tracking, c, now)
    /\ obs' = [op |-> "failure", client |-> c, before |-> FailureInfoOf(c)]
    /\ UNCHANGED <<now, _progress_cache, _connection_quality_cache, progressVars, stallVars, parseVars, threadVars, serverVars>>

\* A direct call of _send_progress_request.
SendProgressRequest(c) ==
    /\ WithinCaps(c)
    /\ \E results \in AttemptResults, d \in Latencies,
          connection_quality \in PayloadQualities :
         \E sent \in {_send_progress_request(_websocket_failure_tracking, c, now,
                                               results, d)} :
         /\ now + sent.elapsed <= MaxTime
         /\ now' = now + sent.elapsed
         /\ _websocket_failure_tracking' = sent.tracking
         /\ obs' = [op |-> "request", client |-> c, before |-> FailureInfoOf(c),
                    success |-> sent.success, calls |-> sent.calls,
                    skipped |-> sent.skipped, results |-> results, t |-> now,
                    connection_quality |-> connection_quality,
                    timeout |-> RequestTimeout(connection_quality,
                                               FailureInfoOf(c).consecutive_failures)]
    /\ UNCHANGED <<_progress_cache, _connection_quality_cache, progressVars, stallVars, parseVars, threadVars, serverVars>>

SendThrottledProgressUpdate(c) ==
    /\ WithinCaps(c)
    /\ \E progress \in ThrottleProgress, metadata \in ThrottleMetadata,
          results \in ThrottledResults, d \in Latencies :
         \E out \in {send_throttled_progress_update(
                        _websocket_failure_tracking, _progress_cache,
                        _connection_quality_cache, c, progress, metadata, now,
                        results, d)} :
         /\ now + out.elapsed <= MaxDeliveryTime
         /\ now' = now + out.elapsed
         /\ _websocket_failure_tracking' = out.tracking
         /\ _progress_cache' = out.pcache
         /\ _connection_quality_cache' = out.qcache
         /\ obs' = [op |-> "throttled", client |-> c, before |-> FailureInfoOf(c),
                    failed_before |-> QualityCacheOf(c).failed_requests,
                    cache_before |-> ProgressCacheOf(c),
                    decided |-> out.decided, success |-> out.success,
                    calls |-> out.calls, skipped |-> out.skipped,
                    progress |-> progress, metadata |-> metadata, t |-> now]
    /\ UNCHANGED <<progressVars, stallVars, parseVars, threadVars, serverVars>>

NextBreaker ==
    \/ Tick(BreakerTicks, MaxTime)
    \/ \E c \in Clients : HandleWebsocketFailure(c)
    \/ \E c \in Clients : SendProgressRequest(c)

SpecBreaker == Init /\ [][NextBreaker]_vars

NextDelivery ==
    \/ Tick(DeliveryTicks, MaxDeliveryTime)
    \/ \E c \in Clients : SendThrottledProgressUpdate(c)

SpecDelivery == Init /\ [][NextDelivery]_vars

\* ------------------------------------------------------------ progress: actions
MaxGeneratorTime == 60
MaxProgressTime == 24
MaxSamples == 2
MaxGeneratorCalls == 3
MaxSeeds == 1
MaxCoordinationCalls == 3
GeneratorTicks == {30}
ProgressTicks == {8}
\* None, below and above the range, and samples with one and two decimals.
ProgressSamples == {None, -10, 10010, 0, 4527, 5000, 10000}
Durations == {60, 300}
\* No sample, a rejected one, and two samples close enough to be smoothed.
CoordinationSamples == {None, 10010, 4527, 5000}
CallVariations == {<<0, 0, 0>>, <<-20, 20, -5>>, <<20, -5, -20>>}

\* get_or_create_progress_state
ProgressStateOf(c) == Get(_progress_states, c, ProgressState(now))
NeverSimulated == [value |-> None, calls |-> 0]
LastSimulatedOf(c) == Get(last_simulated, c, NeverSimulated)

\* The phase a generator call made now would be in, and its variance.
PhaseNow(state) ==
    IF state.fallback_generator = <<>> THEN "initialization"
    ELSE get_current_phase(state.fallback_generator[1],
                           now - state.fallback_generator[1].start_time)
InVariance(state, variation) == Abs(variation) <= Variance(PhaseNow(state))

Remember(c, generated) ==
    IF generated = <<>> THEN last_simulated
    ELSE Put(last_simulated, c, [value |-> generated[Len(generated)],
                                 calls |-> LastSimulatedOf(c).calls + Len(generated)])

SetEstimatedDuration(c) ==
    /\ \E duration \in Durations :
         /\ _progress_states' = Put(_progress_states, c,
                                    set_estimated_duration(ProgressStateOf(c), duration))
         /\ obs' = [op |-> "set_estimated_duration", client |-> c, duration |-> duration]
    /\ UNCHANGED <<now, deliveryVars, last_simulated, stallVars, parseVars, threadVars, serverVars>>

UpdateRealProgress(c, samples, etas, limit) ==
    /\ Len(ProgressStateOf(c).progress_history) < limit
    /\ \E progress \in samples, has_eta \in etas :
         \E out \in {update_real_progress(ProgressStateOf(c), progress, has_eta, now)} :
         /\ _progress_states' = Put(_progress_states, c, out.state)
         /\ obs' = [op |-> "update_real_progress", client |-> c,
                    before |-> ProgressStateOf(c), progress |-> progress,
                    value |-> out.value]
    /\ UNCHANGED <<now, deliveryVars, last_simulated, stallVars, parseVars, threadVars, serverVars>>

ActivateFallback(c) ==
    /\ _progress_states' = Put(_progress_states, c, activate_fallback(ProgressStateOf(c), now))
    /\ obs' = [op |-> "activate_fallback", client |-> c]
    /\ UNCHANGED <<now, deliveryVars, last_simulated, stallVars, parseVars, threadVars, serverVars>>

GetSimulatedProgress(c) ==
    /\ LastSimulatedOf(c).calls < MaxGeneratorCalls
    /\ \E variation \in VariationGrid :
         /\ InVariance(ProgressStateOf(c), variation)
         /\ \E out \in {get_simulated_progress(ProgressStateOf(c), now, variation)} :
              /\ _progress_states' = Put(_progress_states, c, out.state)
              /\ last_simulated' = Remember(c, <<out.value>>)
              /\ obs' = [op |-> "get_simulated_progress", client |-> c,
                         previous |-> LastSimulatedOf(c).value,
                         value |-> out.value, generated |-> <<out.value>>]
    /\ UNCHANGED <<now, deliveryVars, stallVars, parseVars, threadVars, serverVars>>

GetCurrentProgress(c) ==
    /\ LastSimulatedOf(c).calls < MaxCoordinationCalls
    /\ \E variation \in VariationGrid :
         /\ InVariance(ProgressStateOf(c), variation)
         /\ \E out \in {CurrentProgress(ProgressStateOf(c), now, variation)} :
              /\ _progress_states' = Put(_progress_states, c, out.state)
              /\ last_simulated' = Remember(c, out.generated)
              /\ obs' = [op |-> "get_current_progress", client |-> c,
                         before |-> ProgressStateOf(c),
                         previous |-> LastSimulatedOf(c).value,
                         value |-> out.value, generated |-> out.generated]
    /\ UNCHANGED <<now, deliveryVars, stallVars, parseVars, threadVars, serverVars>>

ManageProgressCoordination(c) ==
    /\ LastSimulatedOf(c).calls < MaxCoordinationCalls
    /\ \E progress \in CoordinationSamples, has_eta \in BOOLEAN, v \in CallVariations :
         /\ ValidPercent(progress) =>
                Len(ProgressStateOf(c).progress_history) < MaxSamples
         /\ \E out \in {manage_progress_coordination(ProgressStateOf(c), progress,
                                                      has_eta, now, v)} :
              /\ _progress_states' = Put(_progress_states, c, out.state)
              /\ last_simulated' = Remember(c, out.generated)
              /\ obs' = [op |-> "manage_progress_coordination", client |-> c,
                         before |-> ProgressStateOf(c),
                         previous |-> LastSimulatedOf(c).value,
                         progress |-> progress, value |-> out.value,
                         metadata |-> out.metadata, generated |-> out.generated]
    /\ UNCHANGED <<now, deliveryVars, stallVars, parseVars, threadVars, serverVars>>

NextGenerator ==
    \/ Tick(GeneratorTicks, MaxGeneratorTime)
    \/ \E c \in Clients : SetEstimatedDuration(c)
    \/ \E c \in Clients : UpdateRealProgress(c, ProgressSamples, {FALSE}, MaxSeeds)
    \/ \E c \in Clients : ActivateFallback(c)
    \/ \E c \in Clients : GetSimulatedProgress(c)

SpecGenerator == Init /\ [][NextGenerator]_vars

NextProgress ==
    \/ Tick(ProgressTicks, MaxProgressTime)
    \/ \E c \in Clients : GetCurrentProgress(c)
    \/ \E c \in Clients : ManageProgressCoordination(c)

SpecProgress == Init /\ [][NextProgress]_vars

\* ------------------------------------------------------------ download: actions
MaxStallTime == 62
MaxStallWarnings == 4
StallTicks == {21, 31}
\* A line without progress, or one carrying a validated sample.
StallLines == {None, 4530}
\* The process exits 2 s after SIGTERM, or ignores it.
ExitDelays == {2, 60}
\* Line 1836: the least time between two periodic updates.
HeartbeatInterval == 3
ReturnCodes == {0, 1}

DownloadOf(c) == downloads[c]
Monitoring(c) == c \in DOMAIN downloads /\ downloads[c].pc = "monitoring"

\* download_file up to the start of the monitored process (lines 1738-1794).
StartDownload(c) ==
    /\ c \notin DOMAIN downloads
    /\ \E duration \in Durations :
         \E started \in {_start_progress_monitoring(
                [World EXCEPT !.states = Put(@, c,
                    set_estimated_duration(ProgressStateOf(c), duration))],
                c, now)} :
         /\ _progress_states' = started.states
         /\ _websocket_failure_tracking' = started.tracking
         /\ _progress_cache' = started.pcache
         /\ _connection_quality_cache' = started.qcache
         /\ last_simulated' = Remember(c, started.generated)
    /\ downloads' = Put(downloads, c,
           [pc |-> "monitoring", process |-> "running", returncode |-> None,
            signals |-> <<>>, last_progress_update |-> now, status |-> "downloading",
            detections |-> 0, last_check |-> now, silent |-> FALSE])
    /\ obs' = [op |-> "start", client |-> c]
    /\ UNCHANGED <<now, _stall_detection, parseVars, threadVars, serverVars>>

\* The monitored process exits by itself, or some time after a signal.
ProcessExits(c) ==
    /\ Monitoring(c)
    /\ downloads[c].process = "running"
    /\ \E code \in ReturnCodes :
         downloads' = [downloads EXCEPT ![c].process = "exited", ![c].returncode = code]
    /\ obs' = [op |-> "exit", client |-> c]
    /\ UNCHANGED <<now, deliveryVars, progressVars, _stall_detection, parseVars, threadVars, serverVars>>

\* One pass of the monitoring loop (lines 1797-1860) while poll() is None: a
\* line is read and parsed, the stall check runs, the periodic update is sent.
\* The two readline calls return when the process has written a line or has
\* closed the stream, so a pass is made when the process lets it: the time
\* that passed since the last pass (last_check) is the time the loop waited.
\* exited says that the process ended while the loop waited for the line
\* (exits lists the answers allowed); a process that has gone silent writes
\* no line, so readline returns for it only when it ends.
MonitorPass(c, exits) ==
    /\ Monitoring(c)
    /\ downloads[c].process = "running"
    /\ Get(_stall_detection, c, DefaultStallInfo(now)).stall_warnings < MaxStallWarnings
    /\ \E line \in StallLines, exited \in exits, exit_delay \in ExitDelays,
          code \in ReturnCodes :
         /\ downloads[c].silent => exited
         /\ line # None => Len(ProgressStateOf(c).progress_history) < MaxSamples
         /\ \E parsed \in {parse_progress_line(World, c, line, FALSE, now)} :
            \E detected \in {_detect_download_stall(_stall_detection, parsed.states[c],
                                                    c, now)} :
            \E handled \in {IF detected.is_stalled
                            THEN _handle_download_stall(detected.detection,
                                     parsed.states[c], c, ~exited, exit_delay, now)
                            ELSE NotHandled(detected.detection, parsed.states[c])} :
            \E beat \in {IF now - downloads[c].last_progress_update >= HeartbeatInterval
                         THEN Heartbeat([parsed EXCEPT !.states = Put(@, c, handled.state)],
                                        c, detected.is_stalled, now + handled.elapsed)
                         ELSE [parsed EXCEPT !.states = Put(@, c, handled.state)]} :
              /\ now + handled.elapsed <= MaxStallTime
              /\ now' = now + handled.elapsed
              /\ _progress_states' = beat.states
              /\ _websocket_failure_tracking' = beat.tracking
              /\ _progress_cache' = beat.pcache
              /\ _connection_quality_cache' = beat.qcache
              /\ last_simulated' = Remember(c, beat.generated)
              /\ _stall_detection' = handled.detection
              /\ _parsing_failure_counts' = beat.counts
              /\ UNCHANGED validation_failures
              /\ downloads' = [downloads EXCEPT
                    ![c].signals = @ \o handled.sent,
                    ![c].process =
                        IF exited \/ (handled.sent = <<"terminate">>
                                      /\ exit_delay <= TerminateWait)
                        THEN "exited" ELSE @,
                    ![c].returncode =
                        IF exited \/ (handled.sent = <<"terminate">>
                                      /\ exit_delay <= TerminateWait)
                        THEN code ELSE @,
                    ![c].last_progress_update =
                        IF now - @ >= HeartbeatInterval THEN now ELSE @,
                    ![c].detections = IF detected.is_stalled THEN @ + 1 ELSE @,
                    ![c].last_check = now + handled.elapsed]
              /\ obs' = [op |-> "monitor", client |-> c,
                         is_stalled |-> detected.is_stalled,
                         stall_reason |-> detected.stall_reason,
                         attempts_before |-> detected.detection[c].recovery_attempts,
                         alive |-> ~exited, success |-> handled.success,
                         sent |-> handled.sent, elapsed |-> handled.elapsed,
                         waited |-> now - downloads[c].last_check,
                         heartbeat |-> now - downloads[c].last_progress_update
                                           >= HeartbeatInterval,
                         fallback_handled |-> handled.state.fallback_active]
              /\ UNCHANGED <<threadVars, serverVars>>

MonitorIteration(c) == MonitorPass(c, BOOLEAN)

\* The loop ends at poll() and download_file runs to its return (lines
\* 1862-2089) for a stderr without the format error.
FinishDownload(c) ==
    /\ Monitoring(c)
    /\ downloads[c].process = "exited"
    /\ \E file_found \in BOOLEAN :
         \E finished \in {IF downloads[c].returncode = 0 /\ file_found
                          THEN ResetTrackers(Completed(World, c, now), c)
                          ELSE cleanup_progress_state(World, c)} :
         /\ _progress_states' = finished.states
         /\ _websocket_failure_tracking' = finished.tracking
         /\ _progress_cache' = finished.pcache
         /\ _connection_quality_cache' = finished.qcache
         /\ _stall_detection' = finished.detection
         /\ _parsing_failure_counts' = finished.counts
         /\ UNCHANGED validation_failures
         /\ last_simulated' = IF c \in DOMAIN finished.states
                              THEN Remember(c, finished.generated)
                              ELSE Remove(last_simulated, c)
         /\ downloads' = [downloads EXCEPT
               ![c].pc = "done",
               ![c].status = IF downloads[c].returncode = 0 /\ file_found
                             THEN "processing" ELSE "error"]
    /\ obs' = [op |-> "finish", client |-> c]
    /\ UNCHANGED <<now, threadVars, serverVars>>

\* process_message after download_file returned (lines 2204-2237): the upload
\* and, when it gave a link, the completed status and the cleanup.
ProcessMessageReturns(c) ==
    /\ c \in DOMAIN downloads
    /\ downloads[c].pc = "done"
    /\ \E uploaded \in BOOLEAN :
         \E returned \in {IF downloads[c].status = "processing" /\ uploaded
                          THEN cleanup_progress_state(World, c)
                          ELSE World} :
         /\ _progress_states' = returned.states
         /\ _websocket_failure_tracking' = returned.tracking
         /\ _progress_cache' = returned.pcache
         /\ _connection_quality_cache' = returned.qcache
         /\ _stall_detection' = returned.detection
         /\ _parsing_failure_counts' = returned.counts
         /\ UNCHANGED validation_failures
         /\ last_simulated' = IF c \in DOMAIN returned.states
                              THEN last_simulated
                              ELSE Remove(last_simulated, c)
         /\ downloads' = [downloads EXCEPT
               ![c].pc = "returned",
               ![c].status = IF downloads[c].status # "processing" THEN @
                             ELSE IF uploaded THEN "completed" ELSE "upload_failed"]
    /\ obs' = [op |-> "process_message", client |-> c]
    /\ UNCHANGED <<now, threadVars, serverVars>>

NextStall ==
    \/ Tick(StallTicks, MaxStallTime)
    \/ \E c \in Clients : StartDownload(c)
    \/ \E c \in Clients : ProcessExits(c)
    \/ \E c \in Clients : MonitorIteration(c)
    \/ \E c \in Clients : FinishDownload(c)
    \/ \E c \in Clients : ProcessMessageReturns(c)

SpecStall == Init /\ [][NextStall]_vars

\* ------------------------------------------------------------ silent process: actions
\* The monitored process stops writing to its pipes and does not end by
\* itself: it ends only if a signal makes it.
ProcessGoesSilent(c) ==
    /\ Monitoring(c)
    /\ downloads[c].process = "running"
    /\ ~downloads[c].silent
    /\ downloads' = [downloads EXCEPT ![c].silent = TRUE]
    /\ obs' = [op |-> "silent", client |-> c]
    /\ UNCHANGED <<now, deliveryVars, progressVars, _stall_detection, parseVars, threadVars, serverVars>>

NextHang ==
    \/ Tick(StallTicks, MaxStallTime)
    \/ \E c \in Clients : StartDownload(c)
    \/ \E c \in Clients : ProcessGoesSilent(c)
    \/ \E c \in Clients : MonitorPass(c, {FALSE})
    \/ \E c \in Clients : FinishDownload(c)

\* The loop can make a pass: the process runs and readline has a line to return.
PassReady(c) ==
    /\ Monitoring(c)
    /\ downloads[c].process = "running"
    /\ ~downloads[c].silent
    /\ Get(_stall_detection, c, DefaultStallInfo(now)).stall_warnings < MaxStallWarnings

\* The clock advances, and the job's thread is scheduled whenever it can run:
\* weak fairness of the clock, of the loop's pass and of the loop's end. The
\* fairness of the pass is written out, with PassReady as its enabling
\* condition.
SpecHang ==
    /\ Init /\ [][NextHang]_vars
    /\ WF_vars(Tick(StallTicks, MaxStallTime))
    /\ \A c \in Clients :
          []<>(~PassReady(c)) \/ []<><<MonitorPass(c, {FALSE})>>_vars
    /\ \A c \in Clients : WF_vars(FinishDownload(c))

\* ------------------------------------------------------------ detector: actions
MaxDetectorTime == 655
MaxDetectorWarmup == 75
MaxDetectorSamples == 2
MaxDetectorWarnings == 2
\* Short waits early in the job, and one long wait that passes the 600 s mark.
DetectorTicks == {25}
SlowStartTicks == {580}
DetectorSamples == {300, 800, 4000, 4010, 9600}

\* A direct call of _detect_download_stall (as the unit tests make); the
\* job's ProgressState is created by get_or_create_progress_state if missing.
DetectDownloadStall(c) ==
    /\ Get(_stall_detection, c, DefaultStallInfo(now)).stall_warnings < MaxDetectorWarnings
    /\ \E detected \in {_detect_download_stall(_stall_detection, ProgressStateOf(c),
                                                c, now)} :
         /\ _stall_detection' = detected.detection
         /\ obs' = [op |-> "detect", client |-> c,
                    info |-> Get(_stall_detection, c, DefaultStallInfo(now)),
                    progress |-> RealProgressOrZero(ProgressStateOf(c)),
                    is_stalled |-> detected.is_stalled,
                    stall_reason |-> detected.stall_reason]
    /\ _progress_states' = Put(_progress_states, c, ProgressStateOf(c))
    /\ UNCHANGED <<now, deliveryVars, last_simulated, downloads, parseVars, threadVars, serverVars>>

NextDetector ==
    \/ Tick(DetectorTicks, MaxDetectorWarmup)
    \/ Tick(SlowStartTicks, MaxDetectorTime)
    \/ \E c \in Clients : UpdateRealProgress(c, DetectorSamples, {FALSE}, MaxDetectorSamples)
    \/ \E c \in Clients : DetectDownloadStall(c)

SpecDetector == Init /\ [][NextDetector]_vars

\* ------------------------------------------------------------ cleanup: actions
MaxCleanupTime == 20
MaxParsingFailures == 5
CleanupTicks == {10}

ParsingFailuresOf(c) == Get(_parsing_failure_counts, c, 0)

\* A direct call of _handle_progress_parsing_failure (as the unit tests make).
HandleProgressParsingFailure(c) ==
    /\ ParsingFailuresOf(c) < MaxParsingFailures
    /\ WithinCaps(c)
    /\ \E handled \in {_handle_progress_parsing_failure(World, c, now)} :
         /\ _progress_states' = handled.states
         /\ _websocket_failure_tracking' = handled.tracking
         /\ _progress_cache' = handled.pcache
         /\ _connection_quality_cache' = handled.qcache
         /\ _parsing_failure_counts' = handled.counts
         /\ UNCHANGED validation_failures
         /\ last_simulated' = Remember(c, handled.generated)
    /\ obs' = [op |-> "parse_failure", client |-> c,
               failures_before |-> ParsingFailuresOf(c),
               fallback_before |-> ProgressStateOf(c).fallback_active]
    /\ UNCHANGED <<now, stallVars, threadVars, serverVars>>

\* A line was parsed: the reset at line 850.
ResetParsingFailureCount(c) ==
    /\ _parsing_failure_counts' = _reset_parsing_failure_count(_parsing_failure_counts, c)
    /\ UNCHANGED validation_failures
    /\ obs' = [op |-> "parse_success", client |-> c]
    /\ UNCHANGED <<now, deliveryVars, progressVars, stallVars, threadVars, serverVars>>

CleanupProgressState(c) ==
    /\ \E cleaned \in {cleanup_progress_state(World, c)} :
         /\ _progress_states' = cleaned.states
         /\ _websocket_failure_tracking' = cleaned.tracking
         /\ _progress_cache' = cleaned.pcache
         /\ _connection_quality_cache' = cleaned.qcache
         /\ _stall_detection' = cleaned.detection
         /\ _parsing_failure_counts' = cleaned.counts
         /\ UNCHANGED validation_failures
    /\ last_simulated' = Remove(last_simulated, c)
    /\ obs' = [op |-> "cleanup", client |-> c,
               had_state |-> c \in DOMAIN _progress_states,
               had_failures |-> FailureInfoOf(c).total_failures]
    /\ UNCHANGED <<now, downloads, threadVars, serverVars>>

NextCleanup ==
    \/ Tick(CleanupTicks, MaxCleanupTime)
    \/ \E c \in Clients : HandleProgressParsingFailure(c)
    \/ \E c \in Clients : ResetParsingFailureCount(c)
    \/ \E c \in Clients : HandleWebsocketFailure(c)
    \/ \E c \in Clients : DetectDownloadStall(c)
    \/ \E c \in Clients : CleanupProgressState(c)

SpecCleanup == Init /\ [][NextCleanup]_vars

\* ------------------------------------------------------------ two clients: actions
\* Two jobs whose client ids are such that one is the other followed by "_x".
FrameClients == {"job1", "job1_x"}
MaxFrameFailures == 1

\* Each client fails a bounded number of times.
WithinFrameCaps(c) ==
    /\ FailureInfoOf(c).total_failures < MaxFrameFailures
    /\ ParsingFailuresOf(c) < MaxFrameFailures

NextFrame ==
    \/ \E c \in FrameClients : StartDownload(c)
    \/ \E c \in FrameClients : WithinFrameCaps(c) /\ HandleWebsocketFailure(c)
    \/ \E c \in FrameClients : WithinFrameCaps(c) /\ HandleProgressParsingFailure(c)
    \/ \E c \in FrameClients : DetectDownloadStall(c)
    \/ \E c \in FrameClients : CleanupProgressState(c)

SpecFrame == Init /\ [][NextFrame]_vars

\* ------------------------------------------------------------ pipeline: actions
MaxPipelineTime == 20
MaxPipelineSamples == 1
MaxPipelineCalls == 2
PipelineTicks == {10}
PipelineSamples == {None, 5000}
\* Every post answered, or none.
PipelineResults == {<<"ok", "ok", "ok">>, <<"connection", "unexpected", "timeout">>}

\* A progress line (or, for None, a heartbeat) goes through the coordinator
\* and the throttled delivery over a channel in any condition.
ReportProgress(c) ==
    /\ WithinCaps(c)
    /\ LastSimulatedOf(c).calls < MaxPipelineCalls
    /\ \E progress \in PipelineSamples, results \in PipelineResults, d \in Latencies :
         /\ progress # None => Len(ProgressStateOf(c).progress_history) < MaxPipelineSamples
         /\ \E reported \in {ReportWith(World, c, progress, now, results, d)} :
              /\ now + reported.elapsed <= MaxPipelineTime
              /\ now' = now + reported.elapsed
              /\ _progress_states' = reported.states
              /\ _websocket_failure_tracking' = reported.tracking
              /\ _progress_cache' = reported.pcache
              /\ _connection_quality_cache' = reported.qcache
              /\ _parsing_failure_counts' = reported.counts
              /\ UNCHANGED validation_failures
              /\ last_simulated' = Remember(c, reported.generated)
              /\ obs' = [op |-> "report", client |-> c, progress |-> progress,
                         t |-> now, before |-> ProgressStateOf(c),
                         channel |-> FailureInfoOf(c), results |-> results,
                         failed_before |-> QualityCacheOf(c).failed_requests]
    /\ UNCHANGED <<stallVars, threadVars, serverVars>>

NextPipeline ==
    \/ Tick(PipelineTicks, MaxPipelineTime)
    \/ \E c \in Clients : HandleWebsocketFailure(c)
    \/ \E c \in Clients : ReportProgress(c)

SpecPipeline == Init /\ [][NextPipeline]_vars

\* ------------------------------------------------------------ throttle: actions
\* Progress differences (hundredths of a percent) and time differences
\* (seconds) that give every class of progress rate.
ConfigProgressDiffs == {0, 5, 100, 300, 600}
ConfigTimeDiffs == {0, 1, 10}
ConnectionQualities == {"good", "fair", "poor"}
ConfigMetadata ==
    {NoMetadata} \cup
    {[present |-> TRUE, progress_type |-> ty, fallback_active |-> (ty # "real"),
      current_phase |-> "downloading", is_stalled |-> stalled] :
        ty \in {"real", "simulated", "hybrid"}, stalled \in BOOLEAN}

\* _get_adaptive_throttling_config called for the same inputs with degraded
\* mode off (normal) and on (degraded).
GetAdaptiveThrottlingConfig ==
    /\ \E progress_diff \in ConfigProgressDiffs, time_diff \in ConfigTimeDiffs,
          connection_quality \in ConnectionQualities, metadata \in ConfigMetadata :
         obs' = [op |-> "config", progress_diff |-> progress_diff,
                 time_diff |-> time_diff, connection_quality |-> connection_quality,
                 metadata |-> metadata,
                 normal |-> _get_adaptive_throttling_config(
                                progress_diff, time_diff, connection_quality, metadata,
                                FALSE),
                 degraded |-> _get_adaptive_throttling_config(
                                  progress_diff, time_diff, connection_quality, metadata,
                                  TRUE)]
    /\ UNCHANGED <<now, deliveryVars, progressVars, stallVars, parseVars, threadVars, serverVars>>

NextThrottle == GetAdaptiveThrottlingConfig

SpecThrottle == Init /\ [][NextThrottle]_vars

\* ------------------------------------------------------------ grace period: actions
MaxGraceTime == 8
GraceTicks == {1, 6}

\* get_or_create_progress_state for a client that has no state yet.
GetOrCreateProgressState(c) ==
    /\ c \notin DOMAIN _progress_states
    /\ _progress_states' = Put(_progress_states, c, ProgressState(now))
    /\ obs' = [op |-> "get_or_create_progress_state", client |-> c]
    /\ UNCHANGED <<now, deliveryVars, last_simulated, stallVars, parseVars, threadVars, serverVars>>

\* A job without process output: its state is created, time passes, and
\* get_current_progress is called.
NextGrace ==
    \/ Tick(GraceTicks, MaxGraceTime)
    \/ \E c \in Clients : GetOrCreateProgressState(c)
    \/ \E c \in Clients : GetCurrentProgress(c)

SpecGrace == Init /\ [][NextGrace]_vars

\* ------------------------------------------------------------ callback threads: actions
\* run() hands every message to callback(), which the subscriber runs on a
\* pool of threads: one thread per job, jobs with different client ids.  A
\* thread is followed through _handle_websocket_failure, one step per access
\* to the shared attribute _websocket_failure_tracking.
MaxThreadTime == 10
MaxThreadFailures == 2
ThreadTicks == {10}
ThreadClients == {"job1", "job2"}

NewThread == [pc |-> "idle", handled |-> 0]
ThreadOf(c) == Get(threads, c, NewThread)

\* Line 1684: `if not hasattr(self, '_websocket_failure_tracking')`.
ThreadChecksTable(c) ==
    /\ ThreadOf(c).pc = "idle"
    /\ ThreadOf(c).handled < MaxThreadFailures
    /\ threads' = Put(threads, c, [ThreadOf(c) EXCEPT !.pc = IF tracking_created
                                                           THEN "update" ELSE "create"])
    /\ obs' = [op |-> "thread_check", client |-> c, found |-> tracking_created]
    /\ UNCHANGED <<now, deliveryVars, progressVars, stallVars, parseVars,
                   tracking_created, serverVars>>

\* Line 1685: `self._websocket_failure_tracking = {}`, whatever was there.
ThreadCreatesTable(c) ==
    /\ ThreadOf(c).pc = "create"
    /\ tracking_created' = TRUE
    /\ _websocket_failure_tracking' = EmptyTable
    /\ threads' = Put(threads, c, [ThreadOf(c) EXCEPT !.pc = "update"])
    /\ obs' = [op |-> "thread_create", client |-> c,
               dropped |-> DOMAIN _websocket_failure_tracking]
    /\ UNCHANGED <<now, _progress_cache, _connection_quality_cache, progressVars,
                   stallVars, parseVars, serverVars>>

\* Lines 1687-1710: the record of this client is read, updated and stored.
ThreadStoresFailure(c) ==
    /\ ThreadOf(c).pc = "update"
    /\ _websocket_failure_tracking' =
           _handle_websocket_failure(_websocket_failure_tracking, c, now)
    /\ threads' = Put(threads, c, [pc |-> "idle", handled |-> ThreadOf(c).handled + 1])
    /\ obs' = [op |-> "thread_store", client |-> c]
    /\ UNCHANGED <<now, _progress_cache, _connection_quality_cache, progressVars,
                   stallVars, parseVars, tracking_created, serverVars>>

\* _reset_websocket_failure_tracking as cleanup_progress_state and a
\* successful post call it: one step, on this client's record only.
ThreadResetsTracking(c) ==
    /\ ThreadOf(c).pc = "idle"
    /\ ThreadOf(c).handled > 0
    /\ tracking_created
    /\ _websocket_failure_tracking' =
           _reset_websocket_failure_tracking(_websocket_failure_tracking, c)
    /\ obs' = [op |-> "thread_reset", client |-> c]
    /\ UNCHANGED <<now, _progress_cache, _connection_quality_cache, progressVars,
                   stallVars, parseVars, threadVars, serverVars>>

NextThreads ==
    \/ Tick(ThreadTicks, MaxThreadTime)
    \/ \E c \in ThreadClients : ThreadChecksTable(c)
    \/ \E c \in ThreadClients : ThreadCreatesTable(c)
    \/ \E c \in ThreadClients : ThreadStoresFailure(c)
    \/ \E c \in ThreadClients : ThreadResetsTracking(c)

SpecThreads == Init /\ [][NextThreads]_vars

\* ------------------------------------------------------------ payload: actions
MaxPayloadTime == 8
PayloadTicks == {8}
PayloadSamples == {300, 4527}
PayloadProgress == {4527, 10000}

\* What the callers pass as metadata: nothing, get_progress_metadata, or that
\* with the detector's is_stalled written into it (lines 1842-1843).
MetadataFor(state, t) ==
    {NoMetadata, get_progress_metadata(state, t)} \cup
    {[get_progress_metadata(state, t) EXCEPT !.is_stalled = stalled] @@
     [stall_reason |-> IF stalled THEN "no_progress" ELSE "none"] :
        stalled \in BOOLEAN}

\* _build_enhanced_progress_payload as send_throttled_progress_update calls it.
BuildEnhancedProgressPayload(c) ==
    /\ \E progress \in PayloadProgress, metadata \in MetadataFor(ProgressStateOf(c), now) :
         obs' = [op |-> "payload", client |-> c, metadata |-> metadata,
                 state |-> ProgressStateOf(c),
                 payload |-> _build_enhanced_progress_payload(
                                 progress, metadata,
                                 _get_adaptive_throttling_config(0, 0, "good", metadata,
                                                                 FALSE))]
    /\ UNCHANGED <<now, deliveryVars, progressVars, stallVars, parseVars, threadVars, serverVars>>

NextPayload ==
    \/ Tick(PayloadTicks, MaxPayloadTime)
    \/ \E c \in Clients : SetEstimatedDuration(c)
    \/ \E c \in Clients : UpdateRealProgress(c, PayloadSamples, {FALSE}, MaxSeeds)
    \/ \E c \in Clients : ActivateFallback(c)
    \/ \E c \in Clients : GetCurrentProgress(c)
    \/ \E c \in Clients : BuildEnhancedProgressPayload(c)

SpecPayload == Init /\ [][NextPayload]_vars

\* ------------------------------------------------------------ sanitizer: actions
MaxSanitizerTime == 20
MaxSanitizerSamples == 2
MaxValidationFailures == 2
SanitizerTicks == {10}
\* What a caller may pass: None, a negative number, numbers in range with one
\* and two decimals, and numbers above 100.
RawPercents == {None, -10, 0, 4527, 10000, 10010, 15000}
\* What float(groups[0]) may be: the patterns match digits only, so never
\* negative.
LinePercents == {4527, 10010, 15000}

\* A direct call of _validate_progress.
ValidateProgress(c) ==
    /\ validation_failures < MaxValidationFailures
    /\ \E raw \in RawPercents :
         \E validated \in {ValidatedProgress(validation_failures, raw)} :
         /\ validation_failures' = validated.validation_failures
         /\ obs' = [op |-> "validate", client |-> c, raw |-> raw,
                    value |-> validated.value,
                    failures_before |-> validation_failures]
    /\ UNCHANGED <<now, deliveryVars, progressVars, stallVars,
                   _parsing_failure_counts, threadVars, serverVars>>

\* parse_progress_line for a line whose percent is raw: lines 779-782, then
\* the coordination and the throttled update of lines 846-865.
ParseProgressLine(c) ==
    /\ WithinCaps(c)
    /\ Len(ProgressStateOf(c).progress_history) < MaxSanitizerSamples
    /\ \E raw \in LinePercents :
         \E validated \in {ValidatedProgress(validation_failures, raw)} :
         \E parsed \in {parse_progress_line(World, c, validated.value, FALSE, now)} :
         /\ _progress_states' = parsed.states
         /\ _websocket_failure_tracking' = parsed.tracking
         /\ _progress_cache' = parsed.pcache
         /\ _connection_quality_cache' = parsed.qcache
         /\ _parsing_failure_counts' = parsed.counts
         /\ validation_failures' = validated.validation_failures
         /\ last_simulated' = Remember(c, parsed.generated)
         /\ obs' = [op |-> "parse_line", client |-> c, raw |-> raw,
                    value |-> validated.value,
                    failures_before |-> validation_failures]
    /\ UNCHANGED <<now, stallVars, threadVars, serverVars>>

NextSanitizer ==
    \/ Tick(SanitizerTicks, MaxSanitizerTime)
    \/ \E c \in Clients : ValidateProgress(c)
    \/ \E c \in Clients : ParseProgressLine(c)

SpecSanitizer == Init /\ [][NextSanitizer]_vars

\* ------------------------------------------------------------ history: actions
MaxArrivals == 12
\* Two samples that are told apart, and one that is refused.
HistorySamples == {300, 4527, 10010}

\* The samples update_real_progress has accepted so far, in arrival order.
Arrived == IF obs.op = "record" THEN obs.arrived ELSE <<>>

\* update_real_progress called sample after sample for one job.
RecordSample(c) ==
    /\ Len(Arrived) < MaxArrivals
    /\ \E progress \in HistorySamples :
         \E out \in {update_real_progress(ProgressStateOf(c), progress, FALSE, now)} :
         /\ _progress_states' = Put(_progress_states, c, out.state)
         /\ obs' = [op |-> "record", client |-> c, progress |-> progress,
                    value |-> out.value,
                    arrived |-> IF out.value THEN Append(Arrived, progress) ELSE Arrived]
    /\ UNCHANGED <<now, deliveryVars, last_simulated, stallVars, parseVars, threadVars, serverVars>>

NextHistory == \E c \in Clients : RecordSample(c)

SpecHistory == Init /\ [][NextHistory]_vars

\* ------------------------------------------------------------ server (main.py)
\* A WebSocket of the server: the client id of its URL, whether the client
\* still holds it open, and how many status updates were sent over it.
NewWebSocket(client_id) == [client_id |-> client_id, state |-> "open", delivered |-> 0]

\* response.raise_for_status() in the worker: an HTTPError from 400 on.
PostResult(status_code) == IF status_code >= 400 THEN "http" ELSE "ok"

\* update_status (lines 153-168): the handler of POST /status/{client_id}.
\* send_json raises on a socket the client has left.  Every return is a plain
\* dict, which FastAPI answers with status 200.
update_status(connections, sockets, client_id) ==
    IF client_id \in DOMAIN connections
    THEN IF sockets[connections[client_id]].state = "open"
         THEN [connections |-> connections,
               sockets |-> [sockets EXCEPT ![connections[client_id]].delivered = @ + 1],
               status_code |-> 200, forwarded |-> TRUE,
               message |-> "Status update sent"]
         ELSE [connections |-> Remove(connections, client_id), sockets |-> sockets,
               status_code |-> 200, forwarded |-> FALSE,
               message |-> "Failed to send update"]
    ELSE [connections |-> connections, sockets |-> sockets,
          status_code |-> 200, forwarded |-> FALSE,
          message |-> "No active connection for this client"]

\* The finally block of websocket_endpoint (lines 148-151).
EndpointFinally(connections, client_id) ==
    IF client_id \in DOMAIN connections THEN Remove(connections, client_id)
    ELSE connections

\* ------------------------------------------------------------ server: actions
MaxDelivered == 1
MaxServerFailures == 1
ServerClients == {"job1", "job2"}
Sockets == {"ws1", "ws2"}
NetworkOutcomes == {"reached", "timeout"}

\* websocket_endpoint up to its receive loop (lines 133-138): a browser opens
\* /ws/{client_id}; the socket is accepted and registered under the client id.
WebSocketConnects(s, c) ==
    /\ s \notin DOMAIN websockets
    /\ websockets' = Put(websockets, s, NewWebSocket(c))
    /\ active_connections' = Put(active_connections, c, s)
    /\ obs' = [op |-> "ws_connect", socket |-> s, client |-> c,
               before |-> active_connections]
    /\ UNCHANGED <<now, deliveryVars, progressVars, stallVars, parseVars, threadVars>>

\* The browser closes the socket (or the tab): receive_text will raise
\* WebSocketDisconnect in the endpoint's coroutine when it is next run.
ClientDisconnects(s) ==
    /\ s \in DOMAIN websockets
    /\ websockets[s].state = "open"
    /\ websockets' = [websockets EXCEPT ![s].state = "left"]
    /\ obs' = [op |-> "ws_leave", socket |-> s, client |-> websockets[s].client_id]
    /\ UNCHANGED <<now, deliveryVars, progressVars, stallVars, parseVars, threadVars,
                   active_connections>>

\* The endpoint's coroutine resumes with WebSocketDisconnect and runs its
\* finally block (lines 146-151).
EndpointEnds(s) ==
    /\ s \in DOMAIN websockets
    /\ websockets[s].state = "left"
    /\ websockets' = [websockets EXCEPT ![s].state = "closed"]
    /\ active_connections' = EndpointFinally(active_connections, websockets[s].client_id)
    /\ obs' = [op |-> "ws_closed", socket |-> s, client |-> websockets[s].client_id,
               before |-> active_connections]
    /\ UNCHANGED <<now, deliveryVars, progressVars, stallVars, parseVars, threadVars>>

\* One pass of ping_websockets (lines 39-50): a ping is sent over every
\* registered socket; an entry whose send raised WebSocketDisconnect or
\* ConnectionResetError is deleted.
PingWebsockets ==
    /\ active_connections # EmptyTable
    /\ active_connections' =
           [c \in {k \in DOMAIN active_connections :
                       websockets[active_connections[k]].state = "open"}
               |-> active_connections[c]]
    /\ obs' = [op |-> "ping", before |-> active_connections]
    /\ UNCHANGED <<now, deliveryVars, progressVars, stallVars, parseVars, threadVars,
                   websockets>>

\* The worker's _send_progress_request for client c (worker.py:1578-1669)
\* against this server: a post that reaches the server is answered by
\* update_status, and the worker reads the answer with raise_for_status; a post
\* lost on the way times out, on every retry.
WorkerPostsStatus(c) ==
    /\ FailureInfoOf(c).total_failures < MaxServerFailures
    /\ c \in DOMAIN active_connections =>
           websockets[active_connections[c]].delivered < MaxDelivered
    /\ \E network \in NetworkOutcomes :
       \E answered \in {IF network = "reached"
                           /\ ~CircuitBreakerActive(FailureInfoOf(c), now)
                        THEN update_status(active_connections, websockets, c)
                        ELSE [connections |-> active_connections,
                              sockets |-> websockets, status_code |-> None,
                              forwarded |-> FALSE, message |-> "no answer"]} :
       \E results \in {IF network = "reached"
                       THEN <<PostResult(answered.status_code), "ok", "ok">>
                       ELSE <<"timeout", "timeout", "timeout">>} :
       \E sent \in {_send_progress_request(_websocket_failure_tracking, c, now,
                                            results, 0)} :
         /\ _websocket_failure_tracking' = sent.tracking
         /\ active_connections' = answered.connections
         /\ websockets' = answered.sockets
         /\ obs' = [op |-> "status_post", client |-> c, network |-> network,
                    success |-> sent.success, skipped |-> sent.skipped,
                    forwarded |-> answered.forwarded,
                    status_code |-> answered.status_code,
                    message |-> answered.message,
                    before |-> active_connections]
    /\ UNCHANGED <<now, _progress_cache, _connection_quality_cache, progressVars,
                   stallVars, parseVars, threadVars>>

NextServer ==
    \/ \E s \in Sockets, c \in ServerClients : WebSocketConnects(s, c)
    \/ \E s \in Sockets : ClientDisconnects(s)
    \/ \E s \in Sockets : EndpointEnds(s)
    \/ PingWebsockets
    \/ \E c \in ServerClients : WorkerPostsStatus(c)

SpecServer == Init /\ [][NextServer]_vars

\* ------------------------------------------------------------ claims: FailureTracker
CountedFailure ==
    \/ obs.op = "failure"
    \/ (obs.op = "request" /\ ~obs.success /\ ~obs.skipped)

\* C1: a successful delivery in _send_progress_request leaves the failure record
\* closed (consecutive_failures = 0, circuit_breaker_until = None, degraded_mode
\* false) and total_failures as it was before the delivery.
C1_SuccessCloses ==
    (obs.op = "request" /\ obs.success) =>
        LET info == FailureInfoOf(obs.client) IN
        /\ info.consecutive_failures = 0
        /\ info.circuit_breaker_until = None
        /\ info.degraded_mode = FALSE
        /\ info.total_failures = obs.before.total_failures

\* A success delivered after the breaker's window has run out, the record
\* having been degraded and open.
C1_Witness ==
    /\ obs.op = "request" /\ obs.success
    /\ obs.before.circuit_breaker_until # None
    /\ obs.before.degraded_mode
    /\ obs.before.total_failures >= BreakerThreshold
    /\ FailureInfoOf(obs.client).total_failures = obs.before.total_failures

\* C2: degraded_mode, and with it _is_websocket_degraded, is true once 3
\* failures have been counted in a row and false below 3.
C2_DegradedAtThree ==
    \A c \in Clients :
        /\ FailureInfoOf(c).degraded_mode
               = (FailureInfoOf(c).consecutive_failures >= 3)
        /\ _is_websocket_degraded(_websocket_failure_tracking, c)
               = (FailureInfoOf(c).consecutive_failures >= 3)

\* The third failure in a row has just been counted.
C2_Witness ==
    /\ CountedFailure
    /\ obs.before.consecutive_failures = 2
    /\ ~obs.before.degraded_mode
    /\ _is_websocket_degraded(_websocket_failure_tracking, obs.client)

\* C3: circuit_breaker_until is None below 5 consecutive failures; a failure
\* that makes the count 5 or more sets it to 60 s after that failure.
C3_BreakerAtFive ==
    /\ \A c \in Clients :
           (FailureInfoOf(c).circuit_breaker_until # None)
               = (FailureInfoOf(c).consecutive_failures >= 5)
    /\ (CountedFailure /\ FailureInfoOf(obs.client).consecutive_failures >= 5) =>
           /\ FailureInfoOf(obs.client).circuit_breaker_until = now + 60
           /\ FailureInfoOf(obs.client).circuit_breaker_until > now

\* The fifth failure in a row has just been counted.
C3_Witness ==
    /\ CountedFailure
    /\ obs.before.consecutive_failures = 4
    /\ obs.before.circuit_breaker_until = None
    /\ FailureInfoOf(obs.client).circuit_breaker_until = now + 60

\* C4: a throttled update whose delivery the open breaker skipped makes no
\* network call and changes neither the failure record nor the failed_requests
\* counter that feeds the connection quality.
C4_SkipCountsNothing ==
    (obs.op = "throttled" /\ obs.decided /\ obs.skipped) =>
        /\ obs.calls = 0
        /\ FailureInfoOf(obs.client) = obs.before
        /\ QualityCacheOf(obs.client).failed_requests = obs.failed_before

\* ------------------------------------------------------------ claims: progress
PostState == _progress_states[obs.client]
Generated == IF obs.op \in {"get_simulated_progress", "get_current_progress",
                            "manage_progress_coordination"}
             THEN obs.generated ELSE <<>>
\* The generator's returns of the last call, after the one returned before it.
ReturnChain == (IF Generated = <<>> \/ obs.previous = None THEN <<>> ELSE <<obs.previous>>)
               \o Generated

\* C5: every value update_progress returns lies in [0, 95], and is at most
\* 0.1 below the value the generator returned before it.
C5_BoundedNearlyMonotone ==
    /\ \A i \in 1..Len(Generated) : Generated[i] >= 0 /\ Generated[i] <= 9500
    /\ \A i \in 1..(Len(ReturnChain) - 1) : ReturnChain[i + 1] >= ReturnChain[i] - 10

\* A second return that is below the first one, by the whole tolerance.
C5_Witness ==
    /\ obs.op = "get_simulated_progress"
    /\ obs.previous # None
    /\ obs.value = obs.previous - 10

\* C6 as stated: a sample in [0, 100] is stored rounded to one decimal and
\* true is returned; any other input returns false and changes no field.
C6_StoresRounded ==
    obs.op = "update_real_progress" =>
        IF ValidPercent(obs.progress)
        THEN obs.value /\ PostState.real_progress = Round1(obs.progress)
        ELSE ~obs.value /\ PostState = obs.before

\* C6 amended: a sample in [0, 100] is stored as it was given, without
\* rounding, and true is returned; any other input returns false and changes
\* no field of the ProgressState.
C6_StoresAsGiven ==
    obs.op = "update_real_progress" =>
        IF ValidPercent(obs.progress)
        THEN obs.value /\ PostState.real_progress = obs.progress
        ELSE ~obs.value /\ PostState = obs.before

C6_Witness ==
    /\ obs.op = "update_real_progress"
    /\ obs.progress = 4527
    /\ obs.value
    /\ PostState.real_progress = 4527
    /\ Round1(obs.progress) = 4530

\* C7: with no real sample so far and more than 5 s since the job started,
\* get_current_progress leaves fallback_active true and returns the value
\* the job's generator produced.
C7_FallbackAfterGrace ==
    (/\ obs.op = "get_current_progress"
     /\ obs.before.last_real_update = None
     /\ now - obs.before.download_start_time > 5)
    => /\ PostState.fallback_active
       /\ PostState.fallback_generator # <<>>
       /\ obs.generated = <<obs.value>>
       /\ obs.value = PostState.fallback_generator[1].current_progress

C7_Witness ==
    /\ obs.op = "get_current_progress"
    /\ obs.before.last_real_update = None
    /\ ~obs.before.fallback_active
    /\ now - obs.before.download_start_time > 5
    /\ PostState.fallback_active

\* The case of C8: fallback is active and a valid sample above the generator's
\* current value is passed to manage_progress_coordination.
RealSampleAhead ==
    /\ obs.op = "manage_progress_coordination"
    /\ obs.before.fallback_active
    /\ ValidPercent(obs.progress)
    /\ obs.progress > obs.before.fallback_generator[1].current_progress

\* C8: such a call returns with fallback_active false and progress_type
\* "real", and its value comes from the real samples, not from the generator.
C8_RealSampleResumes ==
    RealSampleAhead =>
        LET recent == LastN(PostState.progress_history, 3) IN
        /\ ~PostState.fallback_active
        /\ PostState.progress_type = "real"
        /\ obs.generated = <<>>
        /\ \E i \in 1..Len(recent) : recent[i] <= obs.value
        /\ \E i \in 1..Len(recent) : recent[i] >= obs.value

C8_Witness ==
    /\ RealSampleAhead
    /\ ~PostState.fallback_active
    /\ obs.value # obs.progress

\* ------------------------------------------------------------ claims: stall recovery
\* The last step was a pass of the monitoring loop that detected a stall, the
\* n-th of the job.
StallDetected(n) ==
    /\ obs.op = "monitor"
    /\ obs.is_stalled
    /\ downloads[obs.client].detections = n

\* C9 as stated: the first detection sends terminate, waits at most 10 s and
\* activates the fallback; the second sends kill; never the other way round.
C9_EscalatesInOrder ==
    /\ StallDetected(1) => /\ obs.sent = <<"terminate">>
                           /\ obs.elapsed <= 10
                           /\ obs.fallback_handled
    /\ StallDetected(2) => obs.sent = <<"kill">>

\* C9 amended: the same, for a process that is still running when the stall
\* is handled; one that has exited meanwhile is sent nothing.  In either case
\* the first detection sends no kill and the second no terminate.
C9_EscalatesWhileRunning ==
    /\ StallDetected(1) =>
          /\ obs.sent # <<"kill">>
          /\ obs.alive => /\ obs.sent = <<"terminate">>
                          /\ obs.elapsed <= 10
                          /\ obs.fallback_handled
          /\ ~obs.alive => obs.sent = <<>>
    /\ StallDetected(2) =>
          /\ obs.sent # <<"terminate">>
          /\ obs.alive => obs.sent = <<"kill">>
          /\ ~obs.alive => obs.sent = <<>>

\* The second detection of a job whose process ignored SIGTERM for 10 s.
C9_Witness ==
    /\ StallDetected(2)
    /\ obs.alive
    /\ obs.sent = <<"kill">>
    /\ downloads[obs.client].signals = <<"terminate", "kill">>

\* C10: from the third detection on nothing more is sent to the process and
\* the job ends there with an error: monitoring has stopped and the error
\* status was reported.
C10_ExhaustedRecoveryFailsJob ==
    (\E n \in 3..MaxStallWarnings : StallDetected(n)) =>
        /\ obs.sent = <<>>
        /\ downloads[obs.client].pc = "done"
        /\ downloads[obs.client].status = "error"

\* ------------------------------------------------------------ claims: stall detection
\* The last step was a call of _detect_download_stall; obs.info is the stall
\* record it read and obs.progress the real progress it saw.
Detected == obs.op = "detect"
SinceLastIncrease == now - obs.info.last_progress_change
SinceStart == now - obs.info.process_start_time
IncreaseSeen == obs.progress > obs.info.last_progress_value + 10
PhaseThreshold == IF obs.progress < 500 THEN 30 ELSE IF obs.progress > 9500 THEN 45 ELSE 20
SlowStartApplies == SinceStart > 600 /\ obs.progress < 1000

C12_SlowStartAlwaysFlagged ==
    (Detected /\ SlowStartApplies) => obs.is_stalled

\* ------------------------------------------------------------ claims: cleanup
\* Every per-job table reads for the client as for one never seen.
NeverSeen(c) ==
    /\ c \notin DOMAIN _progress_states
    /\ c \notin DOMAIN _stall_detection
    /\ c \notin DOMAIN _progress_cache
    /\ c \notin DOMAIN _connection_quality_cache
    /\ Get(_parsing_failure_counts, c, 0) = 0
    /\ Get(_websocket_failure_tracking, c, DefaultFailureInfo) = DefaultFailureInfo

\* C13: after cleanup_progress_state no per-job record and no cache entry of
\* the client is left, and each reads with its default (total_failures = 0,
\* recovery_attempts = 0) as for a client never seen before.
C13_CleanupLeavesNothing ==
    obs.op = "cleanup" => NeverSeen(obs.client)

\* C14: when process_message returns, whatever the outcome, no ProgressState
\* of the job's client is left.
C14_EveryJobEndsWithCleanup ==
    obs.op = "process_message" => obs.client \notin DOMAIN _progress_states

\* C15: when the third parse failure in a row has been handled, the job's
\* fallback is active.
C15_FallbackAtThirdFailure ==
    (obs.op = "parse_failure" /\ obs.failures_before + 1 >= 3) =>
        _progress_states[obs.client].fallback_active

\* ------------------------------------------------------------ claims: job loop
\* C16: while the process is alive the stall check and the heartbeat run on
\* a cadence of a few seconds: no pass of the loop comes more than three
\* heartbeat intervals after the one before it (or after the process start).
C16_ChecksOnFixedCadence ==
    obs.op = "monitor" => obs.waited <= 3 * HeartbeatInterval

\* ------------------------------------------------------------ claims: independence
\* What the coordinator alone returns for the call the last step made.
CoordinatedAlone ==
    manage_progress_coordination(obs.before, obs.progress, FALSE, obs.t, NoVariation)

Requested == obs.op = "request" /\ ~obs.skipped

\* C18: one call posts at most 3 times; only a timeout or a connection error
\* is followed by another post, and it is as long as a retry is left, so an
\* HTTP error response ends the call; a call without a successful post adds
\* exactly 1 to consecutive_failures and to total_failures.
C18_AtMostThreePostsOneFailure ==
    Requested =>
        /\ obs.calls \in 1..3
        /\ \A i \in 1..(obs.calls - 1) : obs.results[i] \in {"timeout", "connection"}
        /\ obs.results[1] \in {"timeout", "connection"} => obs.calls >= 2
        /\ obs.success <=> obs.results[obs.calls] = "ok"
        /\ ~obs.success =>
              /\ FailureInfoOf(obs.client).consecutive_failures
                     = obs.before.consecutive_failures + 1
              /\ FailureInfoOf(obs.client).total_failures = obs.before.total_failures + 1

\* Three posts, a timeout and two connection errors, counted as one failure.
C18_Witness ==
    /\ Requested
    /\ obs.calls = 3
    /\ obs.results = <<"timeout", "connection", "connection">>
    /\ FailureInfoOf(obs.client).total_failures = obs.before.total_failures + 1

\* ------------------------------------------------------------ claims: throttle
Throttled == obs.op = "throttled"

\* C19: an update with progress >= 99 or progress <= 1 is always handed to
\* the delivery, whatever the throttle would say otherwise.
C19_EndsAlwaysSent ==
    (Throttled /\ (obs.progress >= 9900 \/ obs.progress <= 100)) => obs.decided

\* A real-progress update of 99.5% to a degraded channel, sent in the same
\* second as the last one and with the same value.
C19_Witness ==
    /\ Throttled
    /\ obs.progress = 9950
    /\ obs.cache_before.last_progress = 9950
    /\ obs.cache_before.last_progress_update = obs.t
    /\ obs.metadata.progress_type = "real"
    /\ obs.before.degraded_mode
    /\ obs.decided

\* C20: for the same progress rate, connection quality and metadata, the
\* min_time_diff and max_time_diff of degraded mode are at least 1.5 times
\* those of normal mode.
C20_DegradedIntervalsWider ==
    obs.op = "config" =>
        /\ 10 * obs.degraded.min_time_diff >= 15 * obs.normal.min_time_diff
        /\ 10 * obs.degraded.max_time_diff >= 15 * obs.normal.max_time_diff

\* The narrowest case: a stalled simulated update, 1.75 s against 1.0 s.
C20_Witness ==
    /\ obs.op = "config"
    /\ obs.metadata.progress_type = "simulated"
    /\ obs.metadata.is_stalled
    /\ obs.normal.min_time_diff = 1000
    /\ obs.degraded.min_time_diff = 1750
    /\ obs.degraded.max_time_diff = 2 * obs.normal.max_time_diff

\* ------------------------------------------------------------ C21
Coordinated_Call == obs.op = "manage_progress_coordination"

\* C21: whatever samples, heartbeats, fallback activations and deactivations
\* came before, the progress manage_progress_coordination returns lies in
\* [0, 100].
C21_DisplayedWithinRange ==
    Coordinated_Call => obs.value >= 0 /\ obs.value <= 10000

\* A refused sample of 100.1 % arrives while the fallback, activated after a
\* real sample went quiet, produces the value returned.
C21_Witness ==
    /\ Coordinated_Call
    /\ obs.progress = 10010
    /\ obs.before.real_progress # None
    /\ obs.generated # <<>>
    /\ obs.value > 0

\* ------------------------------------------------------------ C22
GraceCall ==
    /\ obs.op = "get_current_progress"
    /\ obs.before.last_real_update = None
    /\ now - obs.before.download_start_time = 6

\* C22: for a job without process output, get_current_progress called 6 s
\* after the job started returns a generator value above 0 and below 35, also
\* when that call is the one that creates the generator.
C22_GraceCallInInitializationRange ==
    GraceCall => obs.generated # <<>> /\ obs.value > 0 /\ obs.value < 3500

\* ------------------------------------------------------------ C23
\* C23: when jobs with different client ids run on different threads, no
\* interleaving loses a record: every failure a thread has stored for its
\* client is still counted in that client's record.
C23_NoRecordLost ==
    \A c \in DOMAIN threads :
        threads[c].handled > 0 =>
            /\ c \in DOMAIN _websocket_failure_tracking
            /\ _websocket_failure_tracking[c].total_failures = threads[c].handled

\* ------------------------------------------------------------ C24
PayloadBuilt == obs.op = "payload"

\* C24: every payload holds progress_type (real, simulated or hybrid),
\* fallback_active, current_phase and is_stalled, with or without metadata;
\* fallback_phase and estimated_duration are in it only when its
\* fallback_active is true.
C24_PayloadIndicators ==
    PayloadBuilt =>
        /\ {"progress_type", "fallback_active", "current_phase", "is_stalled"}
               \subseteq DOMAIN obs.payload
        /\ obs.payload.progress_type \in {"real", "simulated", "hybrid"}
        /\ obs.payload.fallback_active \in BOOLEAN
        /\ obs.payload.is_stalled \in BOOLEAN
        /\ (\E key \in {"fallback_phase", "estimated_duration"} :
                key \in DOMAIN obs.payload) => obs.payload.fallback_active

\* A payload built from the metadata of a job in hybrid fallback that the
\* detector calls stalled: the fallback keys are in it.
C24_Witness ==
    /\ PayloadBuilt
    /\ obs.metadata.present
    /\ obs.payload.progress_type = "hybrid"
    /\ obs.payload.fallback_active
    /\ obs.payload.is_stalled
    /\ "fallback_phase" \in DOMAIN obs.payload
    /\ obs.payload.estimated_duration = 60

\* ------------------------------------------------------------ C25
OutOfRange == obs.op \in {"validate", "parse_line"} /\ obs.raw # None
                  /\ (obs.raw < 0 \/ obs.raw > 10000)

\* C25: a percent outside [0, 100] is never refused: it is clamped to 0 or to
\* 100 and still yields a sample, and each such input adds one to the
\* validation-failure counter.
C25_OutOfRangeClampedAndCounted ==
    OutOfRange =>
        /\ obs.value = (IF obs.raw < 0 THEN 0 ELSE 10000)
        /\ (obs.op = "parse_line" =>
                _progress_states[obs.client].real_progress = obs.value)
        /\ validation_failures = obs.failures_before + 1

\* ------------------------------------------------------------ C26
Recorded == obs.op = "record"

\* C26: progress_history never holds more than 10 entries: after n accepted
\* samples it holds the latest min(n, 10) of them in arrival order.
C26_HistoryKeepsLatestTen ==
    Recorded =>
        LET history == _progress_states[obs.client].progress_history
            n == Len(obs.arrived)
        IN  /\ Len(history) <= 10
            /\ Len(history) = (IF n <= 10 THEN n ELSE 10)
            /\ \A i \in 1..Len(history) : history[i] = obs.arrived[n - Len(history) + i]

\* Twelve samples were accepted, the first two of them are gone, and the
\* history begins and ends with different values.
C26_Witness ==
    /\ Recorded
    /\ Len(obs.arrived) = 12
    /\ Len(_progress_states[obs.client].progress_history) = 10
    /\ obs.arrived[1] = 300 /\ obs.arrived[2] = 300 /\ obs.arrived[3] = 4527
    /\ _progress_states[obs.client].progress_history[1] = 4527
    /\ _progress_states[obs.client].progress_history[10] = 300

\* ------------------------------------------------------------ C27
IncreasedAtLeast == Detected /\ obs.progress >= obs.info.last_progress_value + 10

\* C27: in _detect_download_stall an increase of real progress of at least 0.1
\* over the last recorded value sets last_progress_change to now, records the
\* new value, sets stall_warnings to 0 and makes the call return
\* (false, "active").
C27_IncreaseResetsTimer ==
    IncreasedAtLeast =>
        /\ _stall_detection[obs.client].last_progress_change = now
        /\ _stall_detection[obs.client].last_progress_value = obs.progress
        /\ _stall_detection[obs.client].stall_warnings = 0
        /\ ~obs.is_stalled
        /\ obs.stall_reason = "active"

\* ------------------------------------------------------------ C28
\* C28: send_throttled_progress_update changes the cached last-sent time,
\* last-sent progress and update count only when the delivery succeeded;
\* after a failed or a skipped delivery (and after an update that was
\* throttled away) the three are as before.
C28_CacheFollowsSuccess ==
    Throttled =>
        IF obs.success
        THEN ProgressCacheOf(obs.client) =
                 [last_progress_update |-> obs.t, last_progress |-> obs.progress,
                  update_count |-> obs.cache_before.update_count + 1]
        ELSE ProgressCacheOf(obs.client) = obs.cache_before

\* After one update was sent, a later one with another progress value fails
\* in all its posts: the cache still describes the first.
C28_Witness ==
    /\ Throttled
    /\ obs.decided /\ ~obs.success /\ ~obs.skipped
    /\ obs.cache_before.update_count = 1
    /\ obs.progress # obs.cache_before.last_progress
    /\ obs.t > obs.cache_before.last_progress_update
    /\ ProgressCacheOf(obs.client) = obs.cache_before

\* ------------------------------------------------------------ C29
\* The timeout the claim gives for k consecutive failures, in tenths of a
\* second, for a base of 5 s (10 s on a poor connection).
ClaimedTimeout(base, k) ==
    IF k = 0 THEN base
    ELSE IF (base * (2 + k)) \div 2 <= 300 THEN (base * (2 + k)) \div 2 ELSE 300

\* C29: the timeout of a delivery attempt never exceeds 30 s and never
\* decreases as consecutive_failures grows: it is the base timeout at 0 and
\* min(base * (1 + 0.5 * consecutive_failures), 30) otherwise.
C29_TimeoutCappedAndMonotone ==
    Requested =>
        LET base == IF obs.connection_quality = "poor" THEN 100 ELSE 50
            k == obs.before.consecutive_failures
        IN  /\ obs.timeout <= 300
            /\ obs.timeout = ClaimedTimeout(base, k)
            /\ \A fewer \in 0..k :
                   RequestTimeout(obs.connection_quality, fewer) <= obs.timeout

\* A post made after the breaker's minute has passed, with five consecutive
\* failures on a poor connection: 10 * 3.5 = 35 s is cut to 30 s.
C29_Witness ==
    /\ Requested
    /\ obs.before.consecutive_failures = 5
    /\ obs.connection_quality = "poor"
    /\ obs.timeout = 300

\* ------------------------------------------------------------ C30
SampleNotAhead ==
    /\ obs.op = "update_real_progress"
    /\ obs.value
    /\ obs.before.fallback_active
    /\ obs.before.fallback_generator # <<>>
    /\ obs.progress <= obs.before.fallback_generator[1].current_progress

\* C30: while the fallback is active, a valid real sample at or below the
\* generator's current value leaves fallback_active true after
\* update_real_progress.
C30_SampleBehindKeepsFallback ==
    SampleNotAhead => _progress_states[obs.client].fallback_active

\* ------------------------------------------------------------ C31
SilentAndMonitored(c) ==
    c \in DOMAIN downloads /\ downloads[c].silent /\ downloads[c].pc = "monitoring"
LoopEnded(c) == c \in DOMAIN downloads /\ downloads[c].pc # "monitoring"

\* C31: a monitored process that stops writing and never ends by itself does
\* not hang the job: the monitoring loop of download_file eventually ends.
C31_SilentProcessEndsLoop ==
    \A c \in Clients : SilentAndMonitored(c) ~> LoopEnded(c)

\* ------------------------------------------------------------ C32
FailureRecordConsistent(info) ==
    /\ info.degraded_mode <=> info.consecutive_failures >= DegradedThreshold
    /\ info.circuit_breaker_until # None <=> info.consecutive_failures >= BreakerThreshold
    /\ info.consecutive_failures <= info.total_failures

TotalKept ==
    \A c \in DOMAIN _websocket_failure_tracking \cap DOMAIN _websocket_failure_tracking' :
        _websocket_failure_tracking'[c].total_failures
            >= _websocket_failure_tracking[c].total_failures

\* C32: in every failure record, after any sequence of failures and
\* successes, degraded_mode is true exactly from 3 consecutive failures,
\* circuit_breaker_until is set exactly from 5, consecutive_failures is at
\* most total_failures, and no step makes total_failures smaller.
C32_FailureRecordInvariants ==
    /\ [](\A c \in DOMAIN _websocket_failure_tracking :
              FailureRecordConsistent(_websocket_failure_tracking[c]))
    /\ [][TotalKept]_vars

\* A success closes a record whose breaker had opened: the counters part.
C32_Witness ==
    /\ obs.op = "request" /\ obs.success
    /\ obs.before.consecutive_failures >= BreakerThreshold
    /\ FailureInfoOf(obs.client).consecutive_failures = 0
    /\ FailureInfoOf(obs.client).total_failures >= BreakerThreshold

\* ------------------------------------------------------------ C33
RecoveryKept ==
    \A c \in DOMAIN _stall_detection \cap DOMAIN _stall_detection' :
        _stall_detection'[c].recovery_attempts >= _stall_detection[c].recovery_attempts

EscalationOrders == {<<>>, <<"terminate">>, <<"terminate", "kill">>}

\* C33: within one job, from the creation of its stall record to its cleanup,
\* recovery_attempts is 0, 1 or 2 and no step makes it smaller, also when
\* progress resumes after a recovery; so terminate() is sent at most once,
\* kill() at most once, and kill() never before terminate().
C33_RecoveryOnlyEscalates ==
    /\ [](\A c \in DOMAIN _stall_detection :
              _stall_detection[c].recovery_attempts \in {0, 1, 2})
    /\ [](\A c \in DOMAIN downloads : downloads[c].signals \in EscalationOrders)
    /\ [][RecoveryKept]_vars

\* Progress resumed after terminate() (the warnings were reset while an attempt
\* was on record), the download stalled again, and kill() was sent.
C33_Witness ==
    /\ obs.op = "monitor" /\ obs.sent = <<"kill">>
    /\ downloads[obs.client].signals = <<"terminate", "kill">>
    /\ _stall_detection[obs.client].recovery_attempts = 2
    /\ _stall_detection[obs.client].last_progress_value > 0
    /\ _stall_detection[obs.client].stall_warnings = 1

\* ------------------------------------------------------------ C34
\* C34: after every ProgressState operation and every coordination call,
\* fallback_active is true exactly when progress_type is "simulated" or
\* "hybrid", and false exactly when it is "real".
C34_FallbackAgreesWithType ==
    \A c \in DOMAIN _progress_states :
        /\ _progress_states[c].fallback_active
               <=> _progress_states[c].progress_type \in {"simulated", "hybrid"}
        /\ ~_progress_states[c].fallback_active
               <=> _progress_states[c].progress_type = "real"

\* ------------------------------------------------------------ C35
\* The call that activated the fallback over a real sample gone quiet.
HandOver ==
    /\ obs.op \in {"manage_progress_coordination", "get_current_progress"}
    /\ ~obs.before.fallback_active
    /\ ProgressStateOf(obs.client).fallback_active
    /\ ProgressStateOf(obs.client).progress_type = "hybrid"

\* C35: the hand-over from real to simulated progress does not move the
\* displayed progress backwards: the value the activating call returns is not
\* more than 0.1 below the last real progress, for every real value and
\* whether or not the generator existed before.
C35_HandOverNotBackwards ==
    HandOver => obs.value >= ProgressStateOf(obs.client).real_progress - 10

\* ------------------------------------------------------------ C36
\* manage_progress_coordination returned a value of the generator: the
\* generator was asked, and get_current_progress took one of its two
\* get_simulated_progress branches.
ReturnedSynthetic ==
    /\ obs.op = "manage_progress_coordination"
    /\ obs.generated # <<>>
    /\ \/ ProgressStateOf(obs.client).fallback_active
       \/ ProgressStateOf(obs.client).real_progress = None

\* C36: a value produced by the FallbackProgressGenerator is returned with
\* metadata that says fallback_active = true and a progress_type other than
\* "real", also on the first coordination call at job start.
C36_SyntheticNeverLabelledReal ==
    ReturnedSynthetic =>
        /\ obs.metadata.fallback_active
        /\ obs.metadata.progress_type # "real"

\* ------------------------------------------------------------ C37
\* The entry of client d in a table is the same before and after the step.
EntryKept(table, table_after, d) ==
    /\ d \in DOMAIN table <=> d \in DOMAIN table_after
    /\ d \in DOMAIN table => table_after[d] = table[d]

ClientKept(d) ==
    /\ EntryKept(_progress_states, _progress_states', d)
    /\ EntryKept(_websocket_failure_tracking, _websocket_failure_tracking', d)
    /\ EntryKept(_stall_detection, _stall_detection', d)
    /\ EntryKept(_parsing_failure_counts, _parsing_failure_counts', d)
    /\ EntryKept(_progress_cache, _progress_cache', d)
    /\ EntryKept(_connection_quality_cache, _connection_quality_cache', d)

\* C37: cleanup_progress_state(c) changes only client c's data: the
\* ProgressState, failure record, stall record, parse-failure count and cache
\* entries of every other client d are unchanged, also when c is a prefix of d.
C37_CleanupTouchesOnlyItsClient ==
    [][obs'.op = "cleanup" =>
          \A d \in FrameClients \ {obs'.client} : ClientKept(d)]_vars

\* ------------------------------------------------------------ C38
\* A delivery attempt entered when the cool-down window had elapsed.
AttemptAfterCooldown ==
    /\ obs.op = "request"
    /\ obs.before.circuit_breaker_until # None
    /\ obs.t >= obs.before.circuit_breaker_until

\* C38: once the cool-down window has elapsed the next attempt makes a real
\* network call; the window alone has reset neither consecutive_failures nor
\* degraded_mode, so a failure of that attempt re-opens the breaker for a new
\* 60 s, and only a success closes it.
C38_HalfOpenAfterCooldown ==
    AttemptAfterCooldown =>
        /\ ~obs.skipped /\ obs.calls >= 1
        /\ obs.before.consecutive_failures >= BreakerThreshold
        /\ obs.before.degraded_mode
        /\ ~obs.success =>
              /\ FailureInfoOf(obs.client).consecutive_failures
                     = obs.before.consecutive_failures + 1
              /\ FailureInfoOf(obs.client).degraded_mode
              /\ FailureInfoOf(obs.client).circuit_breaker_until = now + BreakerCooldown
        /\ obs.success <=> FailureInfoOf(obs.client).circuit_breaker_until = None

\* The attempt made exactly when the window ends fails and re-opens the breaker.
C38_Witness ==
    /\ AttemptAfterCooldown
    /\ obs.t = obs.before.circuit_breaker_until
    /\ ~obs.success
    /\ FailureInfoOf(obs.client).circuit_breaker_until = now + BreakerCooldown

\* ------------------------------------------------------------ C39
\* The endpoint of a socket ended while the table held another socket of the
\* same client, one the client still holds open.
FirstEndedSecondLive ==
    /\ obs.op = "ws_closed"
    /\ obs.client \in DOMAIN obs.before
    /\ obs.before[obs.client] # obs.socket
    /\ websockets[obs.before[obs.client]].state = "open"

\* C39: when a second WebSocket is opened with the client id of an earlier
\* one and the earlier one then disconnects, active_connections still holds
\* the second, live connection under that client id.
C39_SecondConnectionKept ==
    FirstEndedSecondLive =>
        /\ obs.client \in DOMAIN active_connections
        /\ active_connections[obs.client] = obs.before[obs.client]

\* ------------------------------------------------------------ C40
\* C40: the worker counts a delivery as a success only if the server forwarded
\* the update to the client's open WebSocket.
C40_SuccessMeansForwarded ==
    (obs.op = "status_post" /\ obs.success) => obs.forwarded

====
